---- MODULE Spec2Model ----
(***************************************************************************)
(* Model of the coordinator of rancorder/master_controller                 *)
(* (src/master_controller_v29.py): snapshot-based change detection,        *)
(* notification cooldown history, atomic snapshot files, and the           *)
(* browser-automation permit pool.                                         *)
(*                                                                         *)
(* Encodings.  A product name is a natural number                          *)
(*     name = 1000 * code + 10 * text + noise                              *)
(* where code > 0 stands for an embedded run of 8+ alphanumerics, text for *)
(* the words that survive normalisation, and noise for what normalisation  *)
(* strips (noise words, brackets, punctuation).  An image URL is           *)
(*     img_url = 10 * path + query        (0 is the empty string).         *)
(* md5(...)[:8] is taken to be collision free on the small universe: the   *)
(* three derivations hash into three disjoint ranges.                      *)
(* Time is counted in hours.                                               *)
(***************************************************************************)
EXTENDS Integers, Sequences, FiniteSets, TLC

VARIABLES
    files,      \* snapshot path -> [state, data]: the target JSON files
    tmp,        \* snapshot path -> [state, data]: the .tmp sibling files
    history,    \* notifications table: product_key -> notified_at
    now,        \* wall clock (hours)
    call,       \* arguments of the detect_new_products call made at this instant
    ret,        \* its return value
    branch,     \* the branch it took
    sn,         \* last stand-alone should_notify call: [key, access, result]
    pc,         \* detection thread -> its position in detect_new_products
    tl,         \* detection thread -> its local variables
    lock,       \* snapshot path -> the thread holding its RLock, or "free"
    permits,    \* value of the semaphore of PlaywrightSemaphore
    run,        \* scheduled run -> [pc, acquired]: its place in execute_stable
    result,     \* the ExecutionResult returned last, with the run it belongs to
    clock,      \* datetime.now() of the scheduler, in seconds since local midnight of day 0
    running,    \* the running flags of the controller and of the executor
    last_run_times,         \* Tier-1 script -> time of its last launch
    last_new_product_time,  \* script -> the time the interval rule measures idleness from
    script_intervals,       \* Tier-1 script -> interval computed at the last tick
    tier1,         \* Tier-1 loop: [pc, wake, tasks, results, launched]
    stats,      \* stats['total_executions']
    script_queue,           \* Tier-2 queue of the current sweep
    executed_scripts,       \* Tier-2 scripts recorded in the current sweep
    cycle_start_time,       \* Tier-2: what the loop takes for the start of the sweep
    last_report_time,       \* time of the last staleness report
    tier2,         \* Tier-2 loop: [pc, wake, task]
    sweep,      \* what happened in the Tier-2 sweep under way, and how the previous one ended
    config_file,            \* shop_config.json: "ok", "one_tier", "p1_only", "p2_only", "missing", "unparseable", "empty"
    token,      \* TRUE when CHATWORK_TOKEN is set
    proc,       \* the process: [pc, status, loops]
    line,       \* a line of scraper output handed to the extractor
    record,     \* what _extract_product_from_line returned for it
    output,     \* the lines of a scraper's stdout handed to extract_stable
    extracted,  \* [pc, products]: the products extract_stable returned for it
    pipe,       \* one execution: [pc, script, returncode, oversized, lines, success, count, new_products, killed]
    op,         \* a history operation under way: [kind, phase, attempt, yielded, wait, error]
    breaker,    \* the circuit breaker: [state, failure_count, last_failure_time, half_open_call_count]
    cb_time,    \* time.time() as the breaker reads it (seconds)
    scrape,     \* a scrape() call of the scraper that owns the breaker: [pc, attempt, refused, exit_code, result]
    cb_obs,     \* what an observer of the protected operation has counted
    live,       \* the two scheduler loops with ages in place of the clock
    sink        \* what left the program: keys handed to / accepted by the sink, key -> time detect last returned it

concVars == <<pc, tl, lock>>

execVars == <<permits, run, result>>

schedVars == <<clock, running, last_run_times, last_new_product_time,
               script_intervals, tier1, stats, script_queue, executed_scripts,
               cycle_start_time, last_report_time, tier2, sweep>>

startVars == <<config_file, token, proc>>

extractVars == <<line, record>>

outputVars == <<output, extracted>>

pipeVars == <<pipe, sink>>

\* the variables declared after those of the pipeline
histVars == <<op>>

breakerVars == <<breaker, cb_time, scrape, cb_obs>>

liveVars == <<live>>

afterPipeVars == <<histVars, breakerVars, liveVars>>

\* the variables declared after those of the line extractor
afterExtractVars == <<outputVars, pipeVars, afterPipeVars>>

newVars == <<schedVars, startVars, extractVars, afterExtractVars>>

vars == <<files, tmp, history, now, call, ret, branch, sn, pc, tl, lock,
          permits, run, result, newVars>>

----------------------------------------------------------------------------
(* Bounds *)

MaxLen == 2         \* longest scraped list enumerated exhaustively
MaxTime == 6        \* the clock stops here
LongExtra == 1      \* the long list has TOP_N + LongExtra items

(* Program constants *)

NOTIFICATION_COOLDOWN_HOURS == 6
CLEANUP_THRESHOLD_HOURS == 24
TOP_N == 20

----------------------------------------------------------------------------
(* Configuration (shop_config.json as loaded by SafeCSVManager.load_config) *)

ConfigRows ==
    << [py_file |-> "a.py", site |-> "A_new",  url_index |-> 0, priority |-> 1],
       [py_file |-> "b.py", site |-> "B_new",  url_index |-> 0, priority |-> 2],
       [py_file |-> "a.py", site |-> "A_used", url_index |-> 1, priority |-> 2],
       [py_file |-> "c.py", site |-> "C_new",  url_index |-> 0, priority |-> 1],
       [py_file |-> "d.py", site |-> "D_new",  url_index |-> 0, priority |-> 1] >>

Scripts == {ConfigRows[i].py_file : i \in DOMAIN ConfigRows}

\* the sites for which scrapers deliver products in this model
Sites == {"A_new", "B_new", "C_new", "D_new"}

RowOf(site) == CHOOSE i \in DOMAIN ConfigRows : ConfigRows[i].site = site

\* script_priority_mapping: rows are iterated in order, the last row wins
script_priority_mapping(script) ==
    LET idx == {i \in DOMAIN ConfigRows : ConfigRows[i].py_file = script}
        last == CHOOSE i \in idx : \A j \in idx : j <= i
    IN  ConfigRows[last].priority

priority1_scripts == {ConfigRows[i].py_file : i \in {j \in DOMAIN ConfigRows : ConfigRows[j].priority = 1}}
priority2_scripts == {ConfigRows[i].py_file : i \in {j \in DOMAIN ConfigRows : ConfigRows[j].priority > 1}}

P2_SHARED_SNAPSHOT == "p2_shared.json"

\* P1: an individual file per (script, url_index); otherwise the shared file
_get_snapshot_path(script_name, url_index) ==
    IF script_priority_mapping(script_name) = 1
    THEN script_name
    ELSE P2_SHARED_SNAPSHOT

PathOf(site) == _get_snapshot_path(ConfigRows[RowOf(site)].py_file, ConfigRows[RowOf(site)].url_index)

Paths == {PathOf(s) : s \in Sites}

\* the sites whose entries live in the shared file
SharedSites == {s \in Sites : PathOf(s) = P2_SHARED_SNAPSHOT}

----------------------------------------------------------------------------
(* Products and the normalised product key *)

Product(n, p, u) == [name |-> n, price |-> p, img_url |-> u]

Universe ==
    { Product(10, 280000, 0),      \* a plain name
      Product(20, 45000, 51),      \* a name with an image URL
      Product(21, 44000, 52) }     \* another name, the same image, another query

\* TOP_N + LongExtra items, each with its own embedded product code
LongList == [i \in 1..(TOP_N + LongExtra) |-> Product(1000 * i + 30, 1000 + i, 0)]

CodeMatch(name) == name \div 1000
_normalize_product_name_cached(name) == (name % 1000) \div 10
StripQuery(img_url) == img_url \div 10

_normalize_product_key(product) ==
    IF CodeMatch(product.name) # 0
    THEN 1000000 + CodeMatch(product.name)
    ELSE IF product.img_url # 0
         THEN 2000000 + StripQuery(product.img_url)
         ELSE 3000000 + _normalize_product_name_cached(product.name)

SeqsUpTo(S, n) == UNION {[1..k -> S] : k \in 0..n}

\* the scraped lists handed to detect_new_products
Inputs == SeqsUpTo(Universe, MaxLen)

\* lists around the TOP_N cap: the long list, its first TOP_N items, and the
\* lists of at most one item
CapInputs == SeqsUpTo(Universe, 1) \cup {LongList, SubSeq(LongList, 1, TOP_N)}

\* the lists used where operations may fail
FaultInputs == SeqsUpTo(Universe, 1)

\* what can go wrong in one detection: nothing, the read of the snapshot
\* file, its write, or one of the three history operations
Faults == {"none", "load", "save", "should_notify", "add_notification", "cleanup"}

Min(a, b) == IF a < b THEN a ELSE b

----------------------------------------------------------------------------
(* Snapshot files *)

EmptyMap == [s \in {} |-> 0]

AbsentFile == [state |-> "absent", data |-> EmptyMap]

CompleteFile(data) == [state |-> "complete", data |-> data]

\* a missing file and an unparseable file both load as the empty mapping,
\* and so does any read that raises
_load_snapshot_file(file, readOk) ==
    IF file.state = "complete" /\ readOk THEN file.data ELSE EmptyMap

Put(data, site, entry) ==
    [s \in (DOMAIN data) \cup {site} |-> IF s = site THEN entry ELSE data[s]]

SnapshotEntry(product, t) ==
    [first_product_key   |-> _normalize_product_key(product),
     first_product_name  |-> product.name,
     first_product_price |-> product.price,
     timestamp           |-> t]

Touch_dropOthers(data, site, t) ==
    [s \in {site} |-> [data[site] EXCEPT !.timestamp = t]]

\* the unchanged branch: only the timestamp of the site's entry is rewritten
Touch(data, site, t) ==
    [data EXCEPT ![site] = [@ EXCEPT !.timestamp = t]]

_handle_first_run_storm(snapshot_data, site, products, t) ==
    [data |-> Put(snapshot_data, site, SnapshotEntry(products[1], t)),
     ret  |-> products]

_handle_first_run(snapshot_data, site, products, t) ==
    [data |-> Put(snapshot_data, site, SnapshotEntry(products[1], t)),
     ret  |-> << >>]

_update_snapshot(snapshot_data, site, current_first, t) ==
    Put(snapshot_data, site, SnapshotEntry(current_first, t))

\* temp file written, flushed, fsynced and renamed over the target; on an
\* exception the target is left alone and the temp file is unlinked
_save_snapshot_file(fs, path, data, writeOk) ==
    IF writeOk THEN [fs EXCEPT ![path] = CompleteFile(data)] ELSE fs

----------------------------------------------------------------------------
(* Notification history (SQLiteNotificationHistory) *)

HasRecent(hist, key, t, cooldown_hours) ==
    key \in DOMAIN hist /\ hist[key] > t - cooldown_hours

\* an exception of the store access is swallowed and answered with False
should_notify(hist, key, t, access) ==
    IF access = "ok"
    THEN ~HasRecent(hist, key, t, NOTIFICATION_COOLDOWN_HOURS)
    ELSE FALSE

add_notification(hist, key, site, t, access) ==
    IF access = "ok"
    THEN [k \in (DOMAIN hist) \cup {key} |->
            IF k = key THEN t ELSE hist[k]]
    ELSE hist

cleanup(hist, t, access) ==
    IF access = "ok"
    THEN [k \in {j \in DOMAIN hist : ~(hist[j] < t - CLEANUP_THRESHOLD_HOURS)} |-> hist[k]]
    ELSE hist

Access(fault, which) == IF fault = which THEN "fail" ELSE "ok"

\* the loop of _apply_notification_cooldown from item i on
RECURSIVE CooldownLoop(_, _, _, _, _, _, _)
CooldownLoop(new_products, i, hist, out, site, t, fault) ==
    IF i > Len(new_products)
    THEN [hist |-> hist, out |-> out]
    ELSE LET product == new_products[i]
             product_key == _normalize_product_key(product)
         IN  IF should_notify(hist, product_key, t, Access(fault, "should_notify"))
             THEN CooldownLoop(new_products, i + 1,
                               add_notification(hist, product_key, site, t,
                                                Access(fault, "add_notification")),
                               Append(out, product), site, t, fault)
             ELSE CooldownLoop(new_products, i + 1, hist, out, site, t, fault)

_apply_notification_cooldown(hist, site, new_products, t, fault) ==
    IF new_products = << >>
    THEN [hist |-> hist, out |-> << >>]
    ELSE LET r == CooldownLoop(new_products, 1, hist, << >>, site, t, fault)
         IN  IF Len(r.out) > 0
             THEN [hist |-> cleanup(r.hist, t, Access(fault, "cleanup")), out |-> r.out]
             ELSE r

----------------------------------------------------------------------------
(* Change detection (SimpleMemoryDiffSystem.detect_new_products) *)

NotFound == -1

\* 0-based position of the first item carrying the remembered key
previous_first_position(products, remembered_first_key) ==
    LET hits == {i \in 1..Len(products) :
                    _normalize_product_key(products[i]) = remembered_first_key}
    IN  IF hits = {} THEN NotFound
        ELSE (CHOOSE i \in hits : \A j \in hits : i <= j) - 1

NewProducts_withLeader(products, pos) ==
    IF pos = NotFound
    THEN SubSeq(products, 1, Min(TOP_N, Len(products)))
    ELSE SubSeq(products, 1, pos + 1)

NewProducts_noCap(products, pos) ==
    IF pos = NotFound
    THEN products
    ELSE SubSeq(products, 1, pos)

\* the items reported as new, before the cooldown filter
NewProducts(products, pos) ==
    IF pos = NotFound
    THEN SubSeq(products, 1, Min(TOP_N, Len(products)))
    ELSE IF pos = 0 THEN << >>
         ELSE SubSeq(products, 1, pos)

BranchOf(snapshot_data, site, products) ==
    IF products = << >> THEN "empty"
    ELSE IF site \notin DOMAIN snapshot_data THEN "first_run"
    ELSE IF _normalize_product_key(products[1]) = snapshot_data[site].first_product_key
         THEN "unchanged"
    ELSE LET pos == previous_first_position(products, snapshot_data[site].first_product_key)
         IN  IF pos = NotFound THEN "vanished"
             ELSE IF pos = 0 THEN "contradiction"
             ELSE "inserted"

\* the mapping detect_new_products hands to _save_snapshot_file
NextSnapshotData(snapshot_data, site, products, t) ==
    LET b == BranchOf(snapshot_data, site, products)
    IN  IF b = "first_run"
        THEN _handle_first_run(snapshot_data, site, products, t).data
        ELSE IF b = "unchanged"
             THEN Touch(snapshot_data, site, t)
             ELSE _update_snapshot(snapshot_data, site, products[1], t)

NoQuery == [key |-> 0, access |-> "ok", result |-> TRUE]

DetectNewProducts(site, products, fault) ==
    LET path == PathOf(site)
        snapshot_data == _load_snapshot_file(files[path], fault # "load")
        b == BranchOf(snapshot_data, site, products)
    IN  /\ call' = [site |-> site, products |-> products, fault |-> fault]
        /\ branch' = b
        /\ sn' = NoQuery
        /\ UNCHANGED <<tmp, now>>
        /\ IF b = "empty"
           THEN /\ ret' = << >>
                /\ UNCHANGED <<files, history>>
           ELSE /\ files' = _save_snapshot_file(files, path,
                                NextSnapshotData(snapshot_data, site, products, now),
                                fault # "save")
                /\ IF b = "first_run"
                   THEN /\ ret' = _handle_first_run(snapshot_data, site, products, now).ret
                        /\ UNCHANGED history
                   ELSE IF b = "unchanged"
                   THEN /\ ret' = << >>
                        /\ UNCHANGED history
                   ELSE LET pos == previous_first_position(products,
                                        snapshot_data[site].first_product_key)
                            r == _apply_notification_cooldown(history, site,
                                        NewProducts(products, pos), now, fault)
                        IN  /\ ret' = r.out
                            /\ history' = r.hist

NoCall == [site |-> "-", products |-> << >>, fault |-> "none"]

Detect ==
    /\ \E site \in SharedSites, products \in Inputs :
            DetectNewProducts(site, products, "none")
    /\ UNCHANGED <<concVars, execVars, newVars>>

DetectCap ==
    /\ \E site \in SharedSites, products \in CapInputs :
            DetectNewProducts(site, products, "none")
    /\ UNCHANGED <<concVars, execVars, newVars>>

DetectFault ==
    /\ \E site \in SharedSites, products \in FaultInputs, fault \in Faults :
            DetectNewProducts(site, products, fault)
    /\ UNCHANGED <<concVars, execVars, newVars>>

\* a stand-alone call of SQLiteNotificationHistory.should_notify
ShouldNotifyCall ==
    \E key \in {_normalize_product_key(p) : p \in Universe}, access \in {"ok", "fail"} :
        /\ sn' = [key |-> key, access |-> access,
                  result |-> should_notify(history, key, now, access)]
        /\ call' = NoCall
        /\ ret' = << >>
        /\ branch' = "-"
        /\ UNCHANGED <<files, tmp, history, now>>
        /\ UNCHANGED <<concVars, execVars, newVars>>

Tick ==
    /\ now + NOTIFICATION_COOLDOWN_HOURS <= MaxTime
    /\ now' = now + NOTIFICATION_COOLDOWN_HOURS
    /\ call' = NoCall
    /\ ret' = << >>
    /\ branch' = "-"
    /\ sn' = NoQuery
    /\ UNCHANGED <<files, tmp, history>>
    /\ UNCHANGED <<concVars, execVars, newVars>>

----------------------------------------------------------------------------
(* Concurrent detections.  execute_stable runs on the threads of the       *)
(* default executor (execute_async), so detect_new_products of different   *)
(* runs interleave.  The RLock of a path is held inside                    *)
(* _load_snapshot_file and inside _save_snapshot_file, not in between.     *)

Threads == {"t1", "t2"}

\* the scraped lists of the concurrent runs
ConcInputs ==
    { << Product(10, 280000, 0) >>,
      << Product(20, 45000, 51), Product(10, 280000, 0) >> }

NoLocal ==
    [site |-> "-", products |-> << >>, data |-> EmptyMap, b |-> "-",
     new_products |-> << >>, i |-> 0, out |-> << >>]

PartialFile == [state |-> "partial", data |-> EmptyMap]

OpenForWrite_target(fs, tmpf, path) ==
    [files |-> [fs EXCEPT ![path] = PartialFile], tmp |-> tmpf]

\* open(temp_path, 'w'): the temp file is truncated, the target untouched
OpenForWrite(fs, tmpf, path) ==
    [files |-> fs, tmp |-> [tmpf EXCEPT ![path] = PartialFile]]

\* shutil.move(temp_path, filepath): a rename inside one directory
Move(fs, tmpf, path) ==
    [files |-> [fs EXCEPT ![path] = tmpf[path]],
     tmp   |-> [tmpf EXCEPT ![path] = AbsentFile]]

\* lines 611-661: load the file, compare, build the mapping to save
T_Load(t) ==
    \E site \in SharedSites, products \in ConcInputs :
        LET path == PathOf(site)
            snapshot_data == _load_snapshot_file(files[path], TRUE)
            b == BranchOf(snapshot_data, site, products)
        IN  /\ pc[t] = "idle"
            /\ files[path].state = "absent" \/ lock[path] = "free"
            /\ tl' = [tl EXCEPT ![t] =
                        [site |-> site, products |-> products,
                         data |-> NextSnapshotData(snapshot_data, site, products, now),
                         b |-> b,
                         new_products |->
                            IF b \in {"first_run", "unchanged"} THEN << >>
                            ELSE NewProducts(products,
                                    previous_first_position(products,
                                        snapshot_data[site].first_product_key)),
                         i |-> 1, out |-> << >>]]
            /\ pc' = [pc EXCEPT ![t] = "computed"]
            /\ UNCHANGED <<files, tmp, history, now, call, ret, branch, sn, lock, permits, run, result, newVars>>

\* _save_snapshot_file: with file_lock
T_SaveLock(t) ==
    /\ pc[t] = "computed"
    /\ lock[PathOf(tl[t].site)] = "free"
    /\ lock' = [lock EXCEPT ![PathOf(tl[t].site)] = t]
    /\ pc' = [pc EXCEPT ![t] = "locked"]
    /\ UNCHANGED <<files, tmp, history, now, call, ret, branch, sn, tl, permits, run, result, newVars>>

T_OpenTmp(t) ==
    /\ pc[t] = "locked"
    /\ LET r == OpenForWrite(files, tmp, PathOf(tl[t].site))
       IN  files' = r.files /\ tmp' = r.tmp
    /\ pc' = [pc EXCEPT ![t] = "tmp_open"]
    /\ UNCHANGED <<history, now, call, ret, branch, sn, tl, lock, permits, run, result, newVars>>

\* json.dump, flush, fsync and close of the temp file
T_DumpSync(t) ==
    /\ pc[t] = "tmp_open"
    /\ tmp' = [tmp EXCEPT ![PathOf(tl[t].site)] = CompleteFile(tl[t].data)]
    /\ pc' = [pc EXCEPT ![t] = "tmp_synced"]
    /\ UNCHANGED <<files, history, now, call, ret, branch, sn, tl, lock, permits, run, result, newVars>>

\* the rename, and the end of the with-block
T_Rename(t) ==
    /\ pc[t] = "tmp_synced"
    /\ LET r == Move(files, tmp, PathOf(tl[t].site))
       IN  files' = r.files /\ tmp' = r.tmp
    /\ lock' = [lock EXCEPT ![PathOf(tl[t].site)] = "free"]
    /\ pc' = [pc EXCEPT ![t] =
                IF tl[t].b \in {"first_run", "unchanged"} THEN "done" ELSE "cooldown"]
    /\ UNCHANGED <<history, now, call, ret, branch, sn, tl, permits, run, result, newVars>>

\* one turn of the loop of _apply_notification_cooldown: should_notify of
\* item i, or after the last item the cleanup and the return
T_Check(t) ==
    /\ pc[t] = "cooldown"
    /\ IF tl[t].i > Len(tl[t].new_products)
       THEN /\ history' = IF Len(tl[t].out) > 0 THEN cleanup(history, now, "ok") ELSE history
            /\ pc' = [pc EXCEPT ![t] = "done"]
            /\ UNCHANGED tl
       ELSE /\ UNCHANGED history
            /\ IF should_notify(history, _normalize_product_key(tl[t].new_products[tl[t].i]),
                                now, "ok")
               THEN /\ pc' = [pc EXCEPT ![t] = "adding"]
                    /\ UNCHANGED tl
               ELSE /\ tl' = [tl EXCEPT ![t].i = @ + 1]
                    /\ UNCHANGED pc
    /\ UNCHANGED <<files, tmp, now, call, ret, branch, sn, lock, permits, run, result, newVars>>

\* add_notification of item i
T_Add(t) ==
    /\ pc[t] = "adding"
    /\ history' = add_notification(history,
                        _normalize_product_key(tl[t].new_products[tl[t].i]),
                        tl[t].site, now, "ok")
    /\ tl' = [tl EXCEPT ![t].out = Append(@, tl[t].new_products[tl[t].i]),
                        ![t].i = @ + 1]
    /\ pc' = [pc EXCEPT ![t] = "cooldown"]
    /\ UNCHANGED <<files, tmp, now, call, ret, branch, sn, lock, permits, run, result, newVars>>

\* detect_new_products returns tl[t].out; the thread is free again
T_Return(t) ==
    /\ pc[t] = "done"
    /\ pc' = [pc EXCEPT ![t] = "idle"]
    /\ tl' = [tl EXCEPT ![t] = NoLocal]
    /\ UNCHANGED <<files, tmp, history, now, call, ret, branch, sn, lock, permits, run, result, newVars>>

\* the process is killed and started again: threads and locks are gone,
\* the files and the history database stay as they are
Crash ==
    /\ \E t \in Threads : pc[t] # "idle"
    /\ pc' = [t \in Threads |-> "idle"]
    /\ tl' = [t \in Threads |-> NoLocal]
    /\ lock' = [p \in Paths |-> "free"]
    /\ UNCHANGED <<files, tmp, history, now, call, ret, branch, sn, permits, run, result, newVars>>

----------------------------------------------------------------------------
(* Script execution (AsyncStableExecutor.execute_stable) under the permit  *)
(* pool.  A run is a task of one tier for one script: Tier 1 gathers one   *)
(* task per priority-1 script, Tier 2 keeps at most one task in flight.    *)
(* result, call, ret and branch describe the step just taken.              *)

PoolSize == 3

Runs == ({1} \X priority1_scripts) \cup ({2} \X priority2_scripts)

\* the scripts whose source mentions playwright
PlaywrightScripts == {"a.py", "c.py", "d.py"}

is_playwright_script(script) == script \in PlaywrightScripts

\* the site fed by the url_index 0 output of a script
SiteOf(script) ==
    ConfigRows[CHOOSE i \in DOMAIN ConfigRows :
                    ConfigRows[i].py_file = script /\ ConfigRows[i].url_index = 0].site

\* the product lists the scrapers print in this model
Scraped(script) ==
    IF script = "a.py" THEN ConcInputs ELSE {<< Product(10, 280000, 0) >>}

Outcomes == {"products", "zero", "nonzero", "timeout", "exception"}

NoResult == [run |-> <<0, "-">>, success |-> FALSE, count |-> 0, error |-> "-"]

ExecutionResult(r, success, count, error) ==
    [run |-> r, success |-> success, count |-> count, error |-> error]

SkipResult_failure(r) == ExecutionResult(r, FALSE, 0, "skipped")

\* lines 1315-1320: no permit within the wait
SkipResult(r) == ExecutionResult(r, TRUE, 0, "-")

Idle == [pc |-> "idle", acquired |-> FALSE]

Release_always(acquired_semaphore, n) == n + 1

Release_never(acquired_semaphore, n) == n

\* the finally block: release only what was acquired
Release(acquired_semaphore, n) == IF acquired_semaphore THEN n + 1 ELSE n

\* no detect_new_products call is made in this step
ClearCall == call' = NoCall /\ ret' = << >> /\ branch' = "-" /\ sn' = NoQuery

\* a task is created; a browser script goes for a permit first
E_Start(r) ==
    /\ run[r].pc = "idle"
    /\ r[1] = 2 => \A q \in Runs : q[1] = 2 => run[q].pc = "idle"
    /\ run' = [run EXCEPT ![r].pc =
                    IF is_playwright_script(r[2]) THEN "acquiring" ELSE "running"]
    /\ result' = NoResult
    /\ ClearCall
    /\ UNCHANGED <<files, tmp, history, now, permits>>
    /\ UNCHANGED <<concVars, newVars>>

\* the script file does not exist: failure result before any permit
E_Missing(r) ==
    /\ run[r].pc = "idle"
    /\ r[1] = 2 => \A q \in Runs : q[1] = 2 => run[q].pc = "idle"
    /\ result' = ExecutionResult(r, FALSE, 0, "missing")
    /\ ClearCall
    /\ UNCHANGED <<files, tmp, history, now, permits, run>>
    /\ UNCHANGED <<concVars, newVars>>

\* semaphore.acquire(timeout=5) obtains a permit
E_Acquire(r) ==
    /\ run[r].pc = "acquiring"
    /\ permits > 0
    /\ permits' = permits - 1
    /\ run' = [run EXCEPT ![r] = [pc |-> "running", acquired |-> TRUE]]
    /\ result' = NoResult
    /\ ClearCall
    /\ UNCHANGED <<files, tmp, history, now>>
    /\ UNCHANGED <<concVars, newVars>>

\* ... or times out: the run is skipped
E_AcquireTimeout(r) ==
    /\ run[r].pc = "acquiring"
    /\ permits = 0
    /\ result' = SkipResult(r)
    /\ run' = [run EXCEPT ![r] = Idle]
    /\ ClearCall
    /\ UNCHANGED <<files, tmp, history, now, permits>>
    /\ UNCHANGED <<concVars, newVars>>

\* the subprocess ends, its output is processed, the permit is released
E_Finish(r) ==
    /\ run[r].pc = "running"
    /\ \E outcome \in Outcomes :
        IF outcome = "products"
        THEN \E products \in Scraped(r[2]) :
                /\ DetectNewProducts(SiteOf(r[2]), products, "none")
                /\ result' = ExecutionResult(r, TRUE, Len(products), "-")
        ELSE /\ \E n \in (IF outcome = "nonzero" THEN {1} ELSE {0}) :
                    result' = ExecutionResult(r, FALSE, n,
                                IF outcome \in {"timeout", "exception"} THEN outcome ELSE "-")
             /\ ClearCall
             /\ UNCHANGED <<files, tmp, history, now>>
    /\ permits' = Release(run[r].acquired, permits)
    /\ run' = [run EXCEPT ![r] = Idle]
    /\ UNCHANGED <<concVars, newVars>>

----------------------------------------------------------------------------
(* Start-up (main, FinalStableMasterController.__init__, start_async) and  *)
(* the two scheduler loops (execute_priority1_async, run_cycle_async).     *)
(* Time is counted in seconds since local midnight.  An execution is seen  *)
(* from the loops by its outcome only:                                     *)
(*   "new"      success, records, detection reported new items (notified)  *)
(*   "same"     success, records, nothing new                              *)
(*   "zero"     no record extracted or non-zero exit: failure              *)
(*   "timeout"  failure with the timeout error                             *)
(*   "skip"     no browser permit: success with count 0                    *)

coreVars == <<files, tmp, history, now, call, ret, branch, sn, concVars, execVars>>

tier1Vars == <<last_run_times, script_intervals, tier1>>

tier2Vars == <<script_queue, executed_scripts, cycle_start_time, last_report_time, tier2, sweep>>

NIGHT_START_HOUR == 1
NIGHT_END_HOUR == 8
NIGHT_INTERVAL_SECONDS == 1800
REPORT_INTERVAL_SECONDS == 1800
MAX_CONCURRENT_P2 == 1

\* the horizon of the scheduler runs, the longest execution while the
\* Tier-2 loop runs, the seconds followed when both loops run, and the
\* clock value at start (07:00)
MaxClock == 28830
MaxRun == 2
MaxBoth == 2
StartTime == 25200

\* the amounts by which time passes while the Tier-2 loop does not run
Jumps == {600, 1800}

\* datetime.min: earlier than every instant by more than any interval
datetime_min == 0 - 1000000

Max(a, b) == IF a > b THEN a ELSE b

\* datetime.now().hour
Hour(t) == (t \div 3600) % 24

is_nighttime(t) == NIGHT_START_HOUR <= Hour(t) /\ Hour(t) < NIGHT_END_HOUR

get_interval_for_priority1_dayRule(idle_seconds, is_night) ==
    IF idle_seconds < 1800 THEN 60
    ELSE IF idle_seconds < 3600 THEN 300
    ELSE 3600

get_interval_for_priority1(idle_seconds, is_night) ==
    IF is_night THEN NIGHT_INTERVAL_SECONDS
    ELSE IF idle_seconds < 1800 THEN 60
    ELSE IF idle_seconds < 3600 THEN 300
    ELSE 3600

get_interval_for_priority2(is_night) ==
    IF is_night THEN NIGHT_INTERVAL_SECONDS ELSE 300

\* the states of shop_config.json: the full table, the table with a.py in
\* the second tier only, two priority-1 rows of it only, its priority-2
\* rows only, an empty table, no file, a file that is not JSON
ConfigFiles == {"ok", "one_tier", "p1_only", "p2_only", "empty", "missing", "unparseable"}

\* both loops are followed second by second for MaxBoth seconds
Horizon == IF config_file \in {"ok", "one_tier"} THEN StartTime + MaxBoth ELSE MaxClock

\* the rows load_config reads
RowsOf(cfg) ==
    CASE cfg = "ok" -> ConfigRows
      [] cfg = "one_tier" -> SelectSeq(ConfigRows, LAMBDA r : r.py_file # "a.py" \/ r.priority > 1)
      [] cfg = "p1_only" -> SelectSeq(ConfigRows, LAMBDA r : r.priority = 1 /\ r.py_file # "d.py")
      [] cfg = "p2_only" -> SelectSeq(ConfigRows, LAMBDA r : r.priority > 1)
      [] OTHER -> << >>

\* py_file.unique() of a selection of rows
UniqueInOrder(rows) ==
    LET first(i) == \A j \in 1..(i - 1) : rows[j].py_file # rows[i].py_file
        keep == {i \in DOMAIN rows : first(i)}
        Nth(n) == CHOOSE i \in keep : Cardinality({j \in keep : j < i}) = n - 1
    IN  [n \in 1..Cardinality(keep) |-> rows[Nth(n)].py_file]

SeqToSet(q) == {q[i] : i \in DOMAIN q}

get_priority1_scripts(cfg) ==
    SeqToSet(UniqueInOrder(SelectSeq(RowsOf(cfg), LAMBDA r : r.priority = 1)))

get_priority2_scripts(cfg) ==
    UniqueInOrder(SelectSeq(RowsOf(cfg), LAMBDA r : r.priority > 1))

\* self.scripts of the Tier-2 controller
Tier2Scripts == get_priority2_scripts(config_file)

Tier1Scripts == get_priority1_scripts(config_file)

RunOutcomes == {"new", "same", "zero", "timeout", "skip"}

\* the executions of browser scripts in flight
BrowserRuns ==
    Cardinality({s \in tier1.tasks : is_playwright_script(s)}) +
    Cardinality({s \in tier2.tasks : is_playwright_script(s)})

\* the outcomes an execution in flight can have: a browser script is skipped
\* when the permits are all with other executions (the five seconds it
\* waits for one are not counted)
OutcomesOf(script) ==
    IF is_playwright_script(script) /\ BrowserRuns - 1 >= PoolSize
    THEN RunOutcomes
    ELSE RunOutcomes \ {"skip"}

\* result.success and result.data['count'] > 0
SuccessWithRecords(outcome) == outcome \in {"new", "same"}

\* the orders list(set) can give
OrdersOf(S) == {q \in [1..Cardinality(S) -> S] : SeqToSet(q) = S}

T1Off == [pc |-> "off", wake |-> 0, tasks |-> {}, results |-> 0, launched |-> 0,
          notified |-> [s \in Tier1Scripts |-> datetime_min]]

T2Off == [pc |-> "off", wake |-> 0, tasks |-> {}, since |-> 0, cycle_count |-> 0]

NoSweep == [start |-> datetime_min, launches |-> [s \in Scripts |-> 0],
            skipped |-> {}, total |-> 0, cancelled |-> 0,
            prev |-> [start |-> datetime_min, end |-> datetime_min, target |-> 0]]

\* a loop that is due does not sleep on
Due(loop) == loop.pc = "sleep" /\ clock >= loop.wake

\* send_notification_for_url: the last new-item notification of a script;
\* last_new_product_time is read for Tier-1 scripts only and kept for them
Stamp(lnp, script, t) ==
    IF script \in DOMAIN lnp THEN [lnp EXCEPT ![script] = t] ELSE lnp

Notify(outcome, script, t) ==
    IF outcome = "new" THEN Stamp(tier1.notified, script, t) ELSE tier1.notified

----------------------------------------------------------------------------
(* Start-up *)

\* SafeCSVManager.load_config
LoadConfig ==
    /\ proc.pc = "load_config"
    /\ proc' = IF config_file = "unparseable"
               THEN [proc EXCEPT !.pc = "exited", !.status = 1]
               ELSE [proc EXCEPT !.pc = "notifier"]
    /\ UNCHANGED <<coreVars, schedVars, config_file, token, extractVars, afterExtractVars>>

\* ChatWorkNotifier.__init__
CreateNotifier ==
    /\ proc.pc = "notifier"
    /\ proc' = IF token
               THEN [proc EXCEPT !.pc = "ready"]
               ELSE [proc EXCEPT !.pc = "exited", !.status = 1]
    /\ UNCHANGED <<coreVars, schedVars, config_file, token, extractVars, afterExtractVars>>

\* start_async: the loops are created
StartAsync ==
    /\ proc.pc = "ready"
    /\ proc' = [proc EXCEPT !.pc = "running",
                    !.loops = {"cycle"}
                        \cup (IF Tier1Scripts # {} THEN {"tier1"} ELSE {})
                        \cup (IF Tier2Scripts # << >> THEN {"tier2"} ELSE {})]
    /\ running' = [master |-> TRUE, executor |-> TRUE]
    /\ tier1' = [tier1 EXCEPT !.pc = IF Tier1Scripts # {} THEN "sleep" ELSE "off"]
    /\ tier2' = [tier2 EXCEPT !.pc = IF Tier2Scripts # << >> THEN "sleep" ELSE "off"]
    /\ UNCHANGED <<clock, last_run_times, last_new_product_time, script_intervals,
                   stats, script_queue, executed_scripts, cycle_start_time,
                   last_report_time, sweep>>
    /\ UNCHANGED <<coreVars, config_file, token, extractVars, afterExtractVars>>

----------------------------------------------------------------------------
(* Tier 1 *)

\* one pass of the while loop up to the gather
T1_Tick ==
    /\ Due(tier1)
    /\ running.master
    /\ LET is_night == is_nighttime(clock)
           interval(s) == get_interval_for_priority1(clock - last_new_product_time[s], is_night)
           due == {s \in Tier1Scripts : clock - last_run_times[s] >= interval(s)}
       IN  /\ script_intervals' = [s \in Tier1Scripts |-> interval(s)]
           /\ last_run_times' = [s \in Tier1Scripts |->
                                    IF s \in due THEN clock ELSE last_run_times[s]]
           /\ tier1' = IF due = {}
                       THEN [tier1 EXCEPT !.wake = clock + 5]
                       ELSE [tier1 EXCEPT !.pc = "gather", !.tasks = due, !.results = 0,
                                          !.launched = @ + Cardinality(due)]
    /\ UNCHANGED <<clock, running, last_new_product_time, stats>>
    /\ UNCHANGED <<coreVars, tier2Vars, startVars, extractVars, afterExtractVars>>

\* _execute_with_interval_tracking: an execution of the gather ends
T1_Complete(s) ==
    /\ tier1.pc = "gather"
    /\ s \in tier1.tasks
    /\ \E outcome \in OutcomesOf(s) :
        /\ last_new_product_time' =
                IF SuccessWithRecords(outcome)
                THEN Stamp(last_new_product_time, s, clock)
                ELSE last_new_product_time
        /\ tier1' = [tier1 EXCEPT !.tasks = @ \ {s}, !.results = @ + 1,
                                  !.notified = Notify(outcome, s, clock)]
    /\ UNCHANGED <<clock, running, last_run_times, script_intervals, stats>>
    /\ UNCHANGED <<coreVars, tier2Vars, startVars, extractVars, afterExtractVars>>

T1_Gathered_first ==
    /\ tier1.pc = "gather"
    /\ tier1.results > 0
    /\ stats' = stats + tier1.results
    /\ tier1' = [tier1 EXCEPT !.pc = "sleep", !.wake = clock + 5, !.results = 0]
    /\ UNCHANGED <<clock, running, last_run_times, script_intervals, last_new_product_time>>
    /\ UNCHANGED <<coreVars, tier2Vars, startVars, extractVars, afterExtractVars>>

\* the gather returns: the results are counted, the loop sleeps 5 s
T1_Gathered ==
    /\ tier1.pc = "gather"
    /\ tier1.tasks = {}
    /\ stats' = stats + tier1.results
    /\ tier1' = [tier1 EXCEPT !.pc = "sleep", !.wake = clock + 5, !.results = 0]
    /\ UNCHANGED <<clock, running, last_run_times, script_intervals, last_new_product_time>>
    /\ UNCHANGED <<coreVars, tier2Vars, startVars, extractVars, afterExtractVars>>

\* while self.running: ends the loop
T1_Exit ==
    /\ Due(tier1)
    /\ ~running.master
    /\ tier1' = [tier1 EXCEPT !.pc = "done"]
    /\ proc' = [proc EXCEPT !.loops = @ \ {"tier1"}]
    /\ UNCHANGED <<clock, running, last_run_times, script_intervals, last_new_product_time, stats>>
    /\ UNCHANGED <<coreVars, tier2Vars, config_file, token, extractVars, afterExtractVars>>

----------------------------------------------------------------------------
(* Tier 2 *)

should_send_report == clock - last_report_time >= REPORT_INTERVAL_SECONDS

\* last_report_time after the check at the top of a pass
AfterReportCheck == IF should_send_report THEN clock ELSE last_report_time

\* the sweep is over: the next queue is built and the loop waits
T2_Rollover ==
    /\ Due(tier2)
    /\ running.executor
    /\ script_queue = << >>
    /\ tier2.tasks = {}
    /\ LET is_night == is_nighttime(clock)
           cycle_duration == clock - cycle_start_time
           not_executed == SeqToSet(Tier2Scripts) \ executed_scripts
           target_interval == get_interval_for_priority2(is_night)
           wait_time == Max(5, target_interval - cycle_duration)
       IN  /\ \E retry_scripts \in OrdersOf(not_executed) :
                script_queue' = retry_scripts \o
                                SelectSeq(Tier2Scripts, LAMBDA x : x \notin not_executed)
           /\ executed_scripts' = {}
           /\ cycle_start_time' = clock
           /\ last_report_time' = IF is_night THEN clock ELSE AfterReportCheck
           /\ tier2' = [tier2 EXCEPT !.wake = clock + wait_time, !.cycle_count = @ + 1]
           /\ sweep' = [sweep EXCEPT
                            !.prev = [start |-> sweep.start, end |-> clock,
                                      target |-> target_interval],
                            !.start = datetime_min,
                            !.launches = [x \in Scripts |-> 0],
                            !.skipped = {}]
    /\ UNCHANGED <<clock, running, last_new_product_time, stats>>
    /\ UNCHANGED <<coreVars, tier1Vars, startVars, extractVars, afterExtractVars>>

Room_oneMore(tasks) == MAX_CONCURRENT_P2 + 1 - Cardinality(tasks)

\* how many more launches `while len(running_tasks) < MAX_CONCURRENT_P2` allows
Room(tasks) == MAX_CONCURRENT_P2 - Cardinality(tasks)

\* scripts are popped and launched while fewer than MAX_CONCURRENT_P2 are in flight
T2_Launch ==
    /\ Due(tier2)
    /\ running.executor
    /\ script_queue # << >>
    /\ Room(tier2.tasks) > 0
    /\ LET k == Min(Room(tier2.tasks), Len(script_queue))
           popped == SeqToSet(SubSeq(script_queue, 1, k))
       IN  /\ script_queue' = SubSeq(script_queue, k + 1, Len(script_queue))
           /\ tier2' = [tier2 EXCEPT !.wake = clock + 1, !.tasks = @ \cup popped,
                                     !.since = clock]
           /\ sweep' = [sweep EXCEPT
                            !.start = IF @ = datetime_min THEN clock ELSE @,
                            !.launches = [x \in Scripts |->
                                            IF x \in popped THEN @[x] + 1 ELSE @[x]],
                            !.total = @ + k]
    /\ last_report_time' = AfterReportCheck
    /\ UNCHANGED <<clock, running, last_new_product_time, stats,
                   executed_scripts, cycle_start_time>>
    /\ UNCHANGED <<coreVars, tier1Vars, startVars, extractVars, afterExtractVars>>

\* a pass that finds the executions of the sweep still in flight
T2_Wait ==
    /\ Due(tier2)
    /\ running.executor
    /\ tier2.tasks # {}
    /\ script_queue = << >> \/ Room(tier2.tasks) <= 0
    /\ tier2' = [tier2 EXCEPT !.wake = clock + 1]
    /\ last_report_time' = AfterReportCheck
    /\ UNCHANGED <<clock, running, last_new_product_time, stats,
                   script_queue, executed_scripts, cycle_start_time, sweep>>
    /\ UNCHANGED <<coreVars, tier1Vars, startVars, extractVars, afterExtractVars>>

\* _execute_and_record: an execution ends and is recorded
T2_Complete(s) ==
    /\ s \in tier2.tasks
    /\ \E outcome \in OutcomesOf(s) :
        /\ last_new_product_time' =
                IF outcome = "new"
                THEN Stamp(last_new_product_time, s, clock)
                ELSE last_new_product_time
        /\ tier1' = [tier1 EXCEPT !.notified = Notify(outcome, s, clock)]
        /\ sweep' = [sweep EXCEPT !.skipped = IF outcome = "skip" THEN @ \cup {s} ELSE @]
    /\ executed_scripts' = executed_scripts \cup {s}
    /\ stats' = stats + 1
    /\ tier2' = [tier2 EXCEPT !.tasks = @ \ {s}]
    /\ UNCHANGED <<clock, running, last_run_times, script_intervals,
                   script_queue, cycle_start_time, last_report_time>>
    /\ UNCHANGED <<coreVars, startVars, extractVars, afterExtractVars>>

\* while self.executor.running: ends the loop
T2_Exit ==
    /\ Due(tier2)
    /\ ~running.executor
    /\ tier2' = [tier2 EXCEPT !.pc = "done"]
    /\ proc' = [proc EXCEPT !.loops = @ \ {"tier2"}]
    /\ UNCHANGED <<clock, running, last_new_product_time, stats, tier1Vars,
                   script_queue, executed_scripts, cycle_start_time, last_report_time, sweep>>
    /\ UNCHANGED <<coreVars, config_file, token, extractVars, afterExtractVars>>

----------------------------------------------------------------------------
(* Shutdown and the passing of time *)

\* signal_handler -> stop()
Stop ==
    /\ proc.pc = "running"
    /\ running.master
    /\ running' = [master |-> FALSE, executor |-> FALSE]
    /\ UNCHANGED <<clock, last_new_product_time, stats, tier1Vars, tier2Vars>>
    /\ UNCHANGED <<coreVars, startVars, extractVars, afterExtractVars>>

\* execute_cycle_async leaves its loop within a second of the flag
CycleExit ==
    /\ proc.pc = "running"
    /\ ~running.master
    /\ "cycle" \in proc.loops
    /\ proc' = [proc EXCEPT !.loops = @ \ {"cycle"}]
    /\ UNCHANGED <<coreVars, schedVars, config_file, token, extractVars, afterExtractVars>>

\* the gather of start_async returns and asyncio.run closes the event loop:
\* the tasks still pending are cancelled, main returns
Close ==
    /\ proc.pc = "running"
    /\ proc.loops = {}
    /\ proc' = [proc EXCEPT !.pc = "exited", !.status = 0]
    /\ tier2' = [tier2 EXCEPT !.tasks = {}]
    /\ sweep' = [sweep EXCEPT !.cancelled = Cardinality(tier2.tasks)]
    /\ UNCHANGED <<clock, running, last_new_product_time, stats, tier1Vars,
                   script_queue, executed_scripts, cycle_start_time, last_report_time>>
    /\ UNCHANGED <<coreVars, config_file, token, extractVars, afterExtractVars>>

TimePasses(t) ==
    /\ t > clock
    /\ t <= Horizon
    /\ clock' = t
    /\ UNCHANGED <<running, last_new_product_time, stats, tier1Vars, tier2Vars>>
    /\ UNCHANGED <<coreVars, startVars, extractVars, afterExtractVars>>

\* time passes unless a loop is due: to the instant the Tier-2 loop wakes
\* while that loop runs (an execution lasts MaxRun at most), by one of the
\* Jumps otherwise
Advance ==
    /\ proc.pc = "running"
    /\ ~Due(tier1)
    /\ ~Due(tier2)
    /\ IF tier2.pc = "sleep"
       THEN /\ tier2.tasks # {} => tier2.wake - tier2.since <= MaxRun
            /\ TimePasses(tier2.wake)
       ELSE \E d \in Jumps : TimePasses(clock + d)

\* the scheduler state as the constructors leave it
SchedConstructed ==
    /\ clock = StartTime
    /\ running = [master |-> FALSE, executor |-> FALSE]
    /\ last_run_times = [s \in Tier1Scripts |-> datetime_min]
    /\ last_new_product_time = [s \in Tier1Scripts |-> StartTime - 7200]
    /\ script_intervals = [s \in Tier1Scripts |->
                            IF is_nighttime(StartTime) THEN NIGHT_INTERVAL_SECONDS ELSE 60]
    /\ tier1 = [T1Off EXCEPT !.wake = StartTime]
    /\ stats = 0
    /\ script_queue = Tier2Scripts
    /\ executed_scripts = {}
    /\ cycle_start_time = StartTime
    /\ last_report_time = StartTime
    /\ tier2 = [T2Off EXCEPT !.wake = StartTime]
    /\ sweep = NoSweep

NoProc == [pc |-> "-", status |-> 0 - 1, loops |-> {}]

StartIdle ==
    /\ config_file = "ok"
    /\ token = TRUE
    /\ proc = NoProc

ExtractIdle ==
    /\ line = << >>
    /\ record = [state |-> "idle", name |-> << >>, price |-> << >>, img_url |-> << >>]

OutputIdle ==
    /\ output = << >>
    /\ extracted = [pc |-> "idle", products |-> << >>]

----------------------------------------------------------------------------
(* The extractor (StableDataExtractor).  A text is a sequence of one-      *)
(* character strings; the three price patterns are matched character by    *)
(* character the way re matches them.  The lines handed to the extractor   *)
(* are made of at most MaxChunks of the Chunks below.                      *)

MaxChunks == 3

Text(n) == [i \in 1..n |-> "a"]

Chunks ==
    { Text(6), Text(201),
      << " " >>, << "|" >>,
      << "l", "o", "g" >>,
      << "|", "|", "h", "t", "t", "p", "/", "x" >>,
      << "1", "2", "3", "4" >>,
      << "円" >>, << "¥" >>,
      << "5", "0", "円" >>,
      << "1", ",", "2", "0", "0", "円" >>,
      << ",", "円" >>,
      << "2", "0", "0", "0", "0", "0", "0", "0", "円" >> }

RECURSIVE Flatten(_)
Flatten(cs) == IF cs = << >> THEN << >> ELSE Head(cs) \o Flatten(Tail(cs))

Lines == {Flatten(cs) : cs \in SeqsUpTo(Chunks, MaxChunks)}

Digit == {"0", "1", "2", "3", "4", "5", "6", "7", "8", "9"}

DigitValue(c) ==
    CASE c = "0" -> 0 [] c = "1" -> 1 [] c = "2" -> 2 [] c = "3" -> 3 [] c = "4" -> 4
      [] c = "5" -> 5 [] c = "6" -> 6 [] c = "7" -> 7 [] c = "8" -> 8 [] c = "9" -> 9

DigitChar(d) == CHOOSE c \in Digit : DigitValue(c) = d

\* the last index of the longest stretch of characters of S from i on (i - 1 if none)
RECURSIVE StretchEnd(_, _, _)
StretchEnd(t, i, S) ==
    IF i <= Len(t) /\ t[i] \in S THEN StretchEnd(t, i + 1, S) ELSE i - 1

NoMatch == [to |-> 0, g1 |-> 0, g2 |-> 0]

\* ([0-9,]+)\s*円, ¥\s*([0-9,]+) and (\d{4,})\s*円 tried at position i:
\* the end of the match and its group, or NoMatch
MatchAt(pattern, t, i) ==
    CASE pattern = 1 ->
            LET e == StretchEnd(t, i, Digit \cup {","})
                k == StretchEnd(t, e + 1, {" "}) + 1
            IN  IF e >= i /\ k <= Len(t) /\ t[k] = "円"
                THEN [to |-> k, g1 |-> i, g2 |-> e] ELSE NoMatch
      [] pattern = 2 ->
            LET k == StretchEnd(t, i + 1, {" "}) + 1
                e == StretchEnd(t, k, Digit \cup {","})
            IN  IF t[i] = "¥" /\ e >= k
                THEN [to |-> e, g1 |-> k, g2 |-> e] ELSE NoMatch
      [] pattern = 3 ->
            LET e == StretchEnd(t, i, Digit)
                k == StretchEnd(t, e + 1, {" "}) + 1
            IN  IF e - i + 1 >= 4 /\ k <= Len(t) /\ t[k] = "円"
                THEN [to |-> k, g1 |-> i, g2 |-> e] ELSE NoMatch

PRICE_PATTERNS == <<1, 2, 3>>

Least(I) == CHOOSE i \in I : \A j \in I : i <= j

\* pattern.search: the leftmost match
Search(pattern, t) ==
    LET at == {i \in 1..Len(t) : MatchAt(pattern, t, i).to > 0}
    IN  IF at = {} THEN NoMatch ELSE MatchAt(pattern, t, Least(at))

\* pattern.sub('', t) from i on: the text up to the next match is kept, the
\* match is cut out, and the scan goes on behind it
RECURSIVE SubFrom(_, _, _)
SubFrom(pattern, t, i) ==
    LET at == {j \in i..Len(t) : MatchAt(pattern, t, j).to > 0}
    IN  IF at = {} THEN SubSeq(t, i, Len(t))
        ELSE SubSeq(t, i, Least(at) - 1)
                \o SubFrom(pattern, t, MatchAt(pattern, t, Least(at)).to + 1)

\* re.sub(S+, ' ', t) from i on: every stretch of characters of S becomes
\* one space
RECURSIVE Squeeze(_, _, _)
Squeeze(t, i, S) ==
    LET at == {j \in i..Len(t) : t[j] \in S}
    IN  IF at = {} THEN SubSeq(t, i, Len(t))
        ELSE SubSeq(t, i, Least(at) - 1) \o << " " >>
                \o Squeeze(t, StretchEnd(t, Least(at), S) + 1, S)

\* str.strip
Strip(t) ==
    LET keep == {i \in 1..Len(t) : t[i] # " "}
    IN  IF keep = {} THEN << >>
        ELSE SubSeq(t, CHOOSE i \in keep : \A j \in keep : i <= j,
                       CHOOSE i \in keep : \A j \in keep : j <= i)

\* Python's integers have no width; every value above Over is kept as Over,
\* which the range test cannot tell from the value itself
Over == 100000000

\* int(price_text.replace(',', '')): -1 stands for ValueError
RECURSIVE IntOf(_, _)
IntOf(t, acc) ==
    IF t = << >> THEN acc
    ELSE IF Head(t) = "," THEN IntOf(Tail(t), acc)
    ELSE IntOf(Tail(t), Min(Over, 10 * acc + DigitValue(Head(t))))

ParseInt(t) ==
    IF \A i \in 1..Len(t) : t[i] = "," THEN 0 - 1 ELSE IntOf(t, 0)

\* str(price)
RECURSIVE Str(_)
Str(n) == IF n < 10 THEN << DigitChar(n) >> ELSE Str(n \div 10) \o << DigitChar(n % 10) >>

PriceInRange_noUpper(price) == 100 <= price

PriceInRange(price) == 100 <= price /\ price <= 10000000

\* _extract_price: the first match of each pattern in turn; 0 stands for None
RECURSIVE PriceFrom(_, _)
PriceFrom(text, n) ==
    IF n > Len(PRICE_PATTERNS) THEN 0
    ELSE LET m == Search(PRICE_PATTERNS[n], text)
             price == IF m.to > 0 THEN ParseInt(SubSeq(text, m.g1, m.g2)) ELSE 0 - 1
         IN  IF m.to > 0 /\ price >= 0 /\ PriceInRange(price) THEN price
             ELSE PriceFrom(text, n + 1)

_extract_price(text) == PriceFrom(text, 1)

_extract_product_name(text) ==
    LET cut == SubFrom(3, SubFrom(2, SubFrom(1, text, 1), 1), 1)
        spaced == Strip(Squeeze(cut, 1, {" "}))
    IN  Strip(Squeeze(spaced, 1, {"|", "box_bar"}))

\* the places of '||' that str.split cuts at, left to right
RECURSIVE Separators(_, _)
Separators(t, i) ==
    LET at == {j \in i..(Len(t) - 1) : t[j] = "|" /\ t[j + 1] = "|"}
    IN  IF at = {} THEN << >>
        ELSE << Least(at) >> \o Separators(t, Least(at) + 2)

NoRecord(state) == [state |-> state, name |-> << >>, price |-> << >>, img_url |-> << >>]

_extract_product_from_line(text) ==
    LET seps == Separators(text, 1)
        name_price_part == IF seps = << >> THEN text ELSE SubSeq(text, 1, seps[1] - 1)
        img_url == IF seps = << >> THEN << >>
                   ELSE SubSeq(text, seps[1] + 2,
                               IF Len(seps) > 1 THEN seps[2] - 1 ELSE Len(text))
        price == _extract_price(name_price_part)
        product_name == _extract_product_name(name_price_part)
    IN  IF price = 0 THEN NoRecord("none")
        ELSE IF Len(product_name) <= 3 THEN NoRecord("none")
        ELSE [state |-> "record",
              name |-> SubSeq(product_name, 1, Min(200, Len(product_name))),
              price |-> Str(price),
              img_url |-> img_url]

Contains(t, word) ==
    \E i \in 1..(Len(t) - Len(word) + 1) : SubSeq(t, i, i + Len(word) - 1) = word

\* the SKIP_KEYWORDS that can be spelt with the characters of the Chunks
SKIP_KEYWORDS == { << "l", "o", "g" >> }

_should_skip_line(text) == \E word \in SKIP_KEYWORDS : Contains(text, word)

\* extract_stable on one line of the output
extract_stable(raw) ==
    LET text == Strip(raw)
    IN  IF Len(text) < 10 THEN NoRecord("none")
        ELSE IF _should_skip_line(text) THEN NoRecord("none")
        ELSE _extract_product_from_line(text)

Extract ==
    /\ record.state = "pending"
    /\ record' = extract_stable(line)
    /\ UNCHANGED <<line, coreVars, schedVars, startVars, afterExtractVars>>

----------------------------------------------------------------------------
(* extract_stable on a whole output: the lines are read in order and the   *)
(* ---URL_INDEX:N--- markers set the url_index of the records after them.  *)

MaxLines == 3

URL_INDEX_PREFIX ==
    << "-", "-", "-", "U", "R", "L", "_", "I", "N", "D", "E", "X", ":" >>

Dashes == << "-", "-", "-" >>

MarkerLine(n) == URL_INDEX_PREFIX \o Str(n) \o Dashes

\* the lines a scraper prints in this model: markers (one with leading
\* blanks, one without a number), two product lines, a product line that
\* is too short, one with a skip keyword, and a line without a price
OutputLines ==
    { MarkerLine(0), MarkerLine(1), << " ", " " >> \o MarkerLine(2),
      URL_INDEX_PREFIX \o << "x" >> \o Dashes,
      Text(6) \o << "1", ",", "2", "0", "0", "円" >>,
      Text(6) \o << " ", "¥", "9", "8", "0" >>,
      << "a", "9", "8", "0", "円" >>,
      << "l", "o", "g", " " >> \o Text(6) \o << "9", "8", "0", "円" >>,
      Text(6) \o << " " >> \o Text(6) }

StartsAt(t, i, w) ==
    i + Len(w) - 1 <= Len(t) /\ SubSeq(t, i, i + Len(w) - 1) = w

\* ---URL_INDEX:(\d+)--- tried at position i: the number, or -1
MarkerAt(t, i) ==
    LET from == i + Len(URL_INDEX_PREFIX)
        e == StretchEnd(t, from, Digit)
    IN  IF StartsAt(t, i, URL_INDEX_PREFIX) /\ e >= from /\ StartsAt(t, e + 1, Dashes)
        THEN ParseInt(SubSeq(t, from, e)) ELSE 0 - 1

\* re.search(r'---URL_INDEX:(\d+)---', line): the number of the leftmost match, or -1
MarkerSearch(t) ==
    LET at == {i \in 1..Len(t) : MarkerAt(t, i) >= 0}
    IN  IF at = {} THEN 0 - 1 ELSE MarkerAt(t, Least(at))

NextUrlIndex_reset(text, current_url_index) ==
    IF MarkerSearch(text) >= 0 THEN MarkerSearch(text) ELSE 0

\* the marker branch: current_url_index after a line that starts with the prefix
NextUrlIndex(text, current_url_index) ==
    IF MarkerSearch(text) >= 0 THEN MarkerSearch(text) ELSE current_url_index

ProductOf(rec, url_index) ==
    [name |-> rec.name, price |-> rec.price, img_url |-> rec.img_url,
     url_index |-> url_index]

\* the loop over the lines from line i on
RECURSIVE ExtractLines(_, _, _)
ExtractLines(lines, i, current_url_index) ==
    IF i > Len(lines) THEN << >>
    ELSE LET text == Strip(lines[i])
         IN  IF Len(text) < 10 THEN ExtractLines(lines, i + 1, current_url_index)
             ELSE IF StartsAt(text, 1, URL_INDEX_PREFIX)
             THEN ExtractLines(lines, i + 1, NextUrlIndex(text, current_url_index))
             ELSE IF extract_stable(text).state = "record"
             THEN << ProductOf(extract_stable(text), current_url_index) >>
                      \o ExtractLines(lines, i + 1, current_url_index)
             ELSE ExtractLines(lines, i + 1, current_url_index)

\* len(output.strip()) for output = '\n'.join(lines)
RECURSIVE JoinedLen(_)
JoinedLen(lines) ==
    IF lines = << >> THEN 0
    ELSE Len(Head(lines)) + (IF Len(lines) > 1 THEN 1 ELSE 0) + JoinedLen(Tail(lines))

StrippedLen(lines) ==
    LET inked == {i \in DOMAIN lines : Strip(lines[i]) # << >>}
    IN  IF inked = {} THEN 0
        ELSE LET a == Least(inked)
                 b == CHOOSE i \in inked : \A j \in inked : j <= i
             IN  IF a = b THEN Len(Strip(lines[a]))
                 ELSE JoinedLen(SubSeq(lines, a, b))
                        - (Len(lines[a]) - Len(Strip(<< "x" >> \o lines[a])) + 1)
                        - (Len(lines[b]) - Len(Strip(lines[b] \o << "x" >>)) + 1)

MAX_OUTPUT_SIZE == 1000000

\* extract_stable(output, script_name): "raised" stands for the ValueError
ExtractOutput ==
    /\ extracted.pc = "pending"
    /\ extracted' =
         IF JoinedLen(output) > MAX_OUTPUT_SIZE
         THEN [pc |-> "raised", products |-> << >>]
         ELSE IF StrippedLen(output) < 10
         THEN [pc |-> "done", products |-> << >>]
         ELSE [pc |-> "done", products |-> ExtractLines(output, 1, 0)]
    /\ UNCHANGED <<output, coreVars, schedVars, startVars, extractVars, pipeVars, afterPipeVars>>

----------------------------------------------------------------------------
(* One Tier-1 execution from the subprocess to the notification            *)
(* (_execute_with_interval_tracking -> execute_stable ->                   *)
(* process_products_by_url_index -> detect_new_products ->                 *)
(* send_notification_for_url).  The stdout of the scraper is seen by the   *)
(* records it holds; the steps are separated where the process can be      *)
(* interrupted between two effects that outlive it.                        *)

MaxPipeTime == 6    \* the wall clock of the executions stops here (hours)

PipeStep == 3       \* hours between two looks at the wall clock

\* Tier-1 scripts with a snapshot file of their own
PipeScripts == {"c.py", "d.py"}

PipeFaults == {"none", "add_notification"}

\* what the scrapers print: nothing, one item, two items with the same key,
\* a new item in front of a known one
PipeInputs ==
    { << >>,
      << Product(10, 280000, 0) >>,
      << Product(20, 45000, 51) >>,
      << Product(20, 45000, 51), Product(21, 44000, 52) >>,
      << Product(21, 44000, 52), Product(10, 280000, 0) >> }

\* url_config['notification_room_ids'] of a row: empty or one room
Rooms == {"", "room1"}

\* datetime.now() in seconds, as the scheduler reads it
PipeClock == StartTime + 3600 * now

NoPipe ==
    [pc |-> "idle", script |-> "-", returncode |-> 0, oversized |-> FALSE,
     lines |-> << >>, success |-> FALSE, count |-> 0, new_products |-> << >>,
     killed |-> FALSE]

\* handed, accepted: the keys the execution under way handed to the notifier
\* and the service accepted; returned: key -> time detect last returned it
NoSink == [handed |-> {}, accepted |-> {}, returned |-> EmptyMap]

PipeIdle ==
    /\ pipe = NoPipe
    /\ sink = NoSink

(* A history operation under lock contention                               *)
(* (SQLiteNotificationHistory._get_connection, a generator wrapped by      *)
(* contextlib.contextmanager, and the three operations that use it).       *)
(* The retry loop is inside the generator and "yield conn" is inside the   *)
(* loop: an OperationalError of the with-body is thrown into the generator *)
(* at the yield, one of conn.commit() is raised after it.  A generator     *)
(* that yields a second time makes the context manager raise RuntimeError. *)
(* Delays are counted in milliseconds.                                     *)

max_retries == 10

base_delay == 50

MaxWait == 5000

Jitters == {0, 100}

HistoryOps == {"should_notify", "add_notification", "cleanup"}

NoOp == [kind |-> "-", phase |-> "idle", attempt |-> 0, yielded |-> FALSE,
         wait |-> 0, error |-> "-"]

HistIdle == op = NoOp

RECURSIVE Pow2(_)
Pow2(n) == IF n = 0 THEN 1 ELSE 2 * Pow2(n - 1)

\* wait_time = min(base_delay * (2 ** attempt) + jitter, 5.0)
wait_time(attempt, jitter) == Min(base_delay * Pow2(attempt) + jitter, MaxWait)

\* the except branch of the loop: "locked" and attempts left -> sleep, continue
Locked(o, jitter) ==
    IF o.attempt < max_retries - 1
    THEN [o EXCEPT !.phase = "connect", !.attempt = @ + 1,
                   !.wait = wait_time(o.attempt, jitter)]
    ELSE [o EXCEPT !.phase = "abandoned", !.error = "OperationalError"]

\* should_notify, add_notification or cleanup enters "with self._get_connection()"
H_Call ==
    /\ op.phase \in {"idle", "completed", "abandoned"}
    /\ \E kind \in HistoryOps : op' = [NoOp EXCEPT !.kind = kind, !.phase = "connect"]
    /\ UNCHANGED <<coreVars, schedVars, startVars, extractVars, outputVars, pipeVars>>
    /\ UNCHANGED <<breakerVars, liveVars>>

\* connect, PRAGMA, BEGIN, then yield: the first yield enters the with-body,
\* a later one is answered with RuntimeError by the context manager
H_Connect ==
    /\ op.phase = "connect"
    /\ \E locked \in BOOLEAN, jitter \in Jitters :
         op' = IF locked THEN Locked(op, jitter)
               ELSE IF op.yielded
                    THEN [op EXCEPT !.phase = "abandoned", !.error = "RuntimeError"]
                    ELSE [op EXCEPT !.phase = "body", !.yielded = TRUE]
    /\ UNCHANGED <<coreVars, schedVars, startVars, extractVars, outputVars, pipeVars>>
    /\ UNCHANGED <<breakerVars, liveVars>>

\* the statement of the operation (SELECT, INSERT OR REPLACE, DELETE)
H_Body ==
    /\ op.phase = "body"
    /\ \E locked \in BOOLEAN, jitter \in Jitters :
         op' = IF locked THEN Locked(op, jitter)
               ELSE [op EXCEPT !.phase = "commit"]
    /\ UNCHANGED <<coreVars, schedVars, startVars, extractVars, outputVars, pipeVars>>
    /\ UNCHANGED <<breakerVars, liveVars>>

\* conn.commit() after the yield
H_Commit ==
    /\ op.phase = "commit"
    /\ \E locked \in BOOLEAN, jitter \in Jitters :
         op' = IF locked THEN Locked(op, jitter)
               ELSE [op EXCEPT !.phase = "completed"]
    /\ UNCHANGED <<coreVars, schedVars, startVars, extractVars, outputVars, pipeVars>>
    /\ UNCHANGED <<breakerVars, liveVars>>

----------------------------------------------------------------------------
(* The circuit breaker of a scraper and the scrape() call that uses it     *)
(* (src/ohbayash.py: CircuitBreaker, RetryPolicy.execute_with_retry,       *)
(* OhbayashiScraper.scrape; the breakers of src/hardoff.py, one state per  *)
(* URL, and of src/mediajoy.py have the same transitions with the count of *)
(* trial successes written as 3).  The breaker belongs to the scraper      *)
(* object and lives through its scrape() calls.  Time is in seconds.       *)

CB_FAILURE_THRESHOLD == 5

CB_RECOVERY_TIMEOUT_SECONDS == 30

CB_HALF_OPEN_MAX_CALLS == 3

RETRY_MAX_ATTEMPTS == 3

MaxCbTime == 90     \* time.time() stops here

CbStep == 15        \* seconds between two looks at the clock

NoTime == 0 - 1

\* CircuitBreakerState()
CircuitBreakerState ==
    [state |-> "CLOSED", failure_count |-> 0, last_failure_time |-> NoTime,
     half_open_call_count |-> 0]

\* ScraperExitCode
ExitCode ==
    [SUCCESS |-> 0, PARTIAL_SUCCESS |-> 1, FAILURE |-> 2, CIRCUIT_OPEN |-> 3,
     VALIDATION_ERROR |-> 4]

NoScrape ==
    [pc |-> "idle", attempt |-> 0, refused |-> FALSE, exit_code |-> 0 - 1,
     result |-> "-"]

\* what an observer of the protected operation counts: the last event, the
\* failures since the last success, the successes since the last failure
NoObs == [event |-> "-", fails |-> 0, wins |-> 0]

\* _check_state_transition
_check_state_transition(b, t) ==
    IF /\ b.state = "OPEN"
       /\ b.last_failure_time # NoTime
       /\ t - b.last_failure_time >= CB_RECOVERY_TIMEOUT_SECONDS
    THEN [b EXCEPT !.state = "HALF_OPEN", !.half_open_call_count = 0]
    ELSE b

\* can_execute, after the transition check
can_execute(b) == b.state # "OPEN"

record_success_noReset(b) ==
    IF b.state = "HALF_OPEN"
    THEN IF b.half_open_call_count + 1 >= CB_HALF_OPEN_MAX_CALLS
         THEN [b EXCEPT !.state = "CLOSED", !.failure_count = 0,
                        !.half_open_call_count = 0]
         ELSE [b EXCEPT !.half_open_call_count = @ + 1]
    ELSE b

record_success(b) ==
    IF b.state = "HALF_OPEN"
    THEN IF b.half_open_call_count + 1 >= CB_HALF_OPEN_MAX_CALLS
         THEN [b EXCEPT !.state = "CLOSED", !.failure_count = 0,
                        !.half_open_call_count = 0]
         ELSE [b EXCEPT !.half_open_call_count = @ + 1]
    ELSE IF b.state = "CLOSED"
         THEN [b EXCEPT !.failure_count = 0]
         ELSE b

record_failure(b, t) ==
    LET c == [b EXCEPT !.failure_count = @ + 1, !.last_failure_time = t]
    IN  IF c.state = "HALF_OPEN" \/ c.failure_count >= CB_FAILURE_THRESHOLD
        THEN [c EXCEPT !.state = "OPEN"]
        ELSE c

\* execute_stable sees the exit code of the scraper only through
\* "result.returncode == 0": any other code gives the same failure result
Reported(returncode, count) ==
    IF returncode = 0 /\ count > 0 THEN "success" ELSE "failure"

\* execute_with_retry after an attempt that raised: another attempt, or
\* RetryExhaustedException, which scrape() answers with FAILURE
AfterException(s) ==
    IF s.attempt >= RETRY_MAX_ATTEMPTS
    THEN [s EXCEPT !.pc = "done", !.exit_code = ExitCode.FAILURE]
    ELSE [s EXCEPT !.pc = "retry"]

\* scrape(): the check in front of the retry loop
S_Begin ==
    /\ scrape.pc = "idle"
    /\ LET b == _check_state_transition(breaker, cb_time)
       IN  /\ breaker' = b
           /\ IF can_execute(b)
              THEN /\ scrape' = [NoScrape EXCEPT !.pc = "retry"]
                   /\ cb_obs' = [cb_obs EXCEPT !.event = "check"]
              ELSE /\ scrape' = [NoScrape EXCEPT !.pc = "done", !.refused = TRUE,
                                                 !.exit_code = ExitCode.CIRCUIT_OPEN]
                   /\ cb_obs' = [cb_obs EXCEPT !.event = "refused"]
    /\ UNCHANGED <<cb_time, coreVars, schedVars, startVars, extractVars, outputVars, pipeVars>>
    /\ UNCHANGED <<histVars, liveVars>>

\* an attempt of execute_with_retry enters protect(): the operation is
\* invoked, or CircuitOpenException is raised and caught by the retry loop
S_Enter ==
    /\ scrape.pc = "retry"
    /\ LET b == _check_state_transition(breaker, cb_time)
           s == [scrape EXCEPT !.attempt = @ + 1]
       IN  /\ breaker' = b
           /\ IF can_execute(b)
              THEN /\ scrape' = [s EXCEPT !.pc = "inside"]
                   /\ cb_obs' = [cb_obs EXCEPT !.event = "invoked"]
              ELSE /\ scrape' = AfterException([s EXCEPT !.refused = TRUE])
                   /\ cb_obs' = [cb_obs EXCEPT !.event = "refused"]
    /\ UNCHANGED <<cb_time, coreVars, schedVars, startVars, extractVars, outputVars, pipeVars>>
    /\ UNCHANGED <<histVars, liveVars>>

\* the protected operation returns or raises, and protect() records it
S_Leave ==
    /\ scrape.pc = "inside"
    /\ \E ok \in BOOLEAN, products \in {0, 1} :
         IF ok
         THEN /\ breaker' = record_success(breaker)
              /\ scrape' = [scrape EXCEPT !.pc = "done",
                                !.exit_code = IF products > 0 THEN ExitCode.SUCCESS
                                              ELSE ExitCode.PARTIAL_SUCCESS]
              /\ cb_obs' = [event |-> "success", fails |-> 0,
                            wins |-> Min(cb_obs.wins + 1, CB_HALF_OPEN_MAX_CALLS)]
         ELSE /\ breaker' = record_failure(breaker, cb_time)
              /\ scrape' = AfterException(scrape)
              /\ cb_obs' = [event |-> "failure", fails |-> cb_obs.fails + 1, wins |-> 0]
    /\ UNCHANGED <<cb_time, coreVars, schedVars, startVars, extractVars, outputVars, pipeVars>>
    /\ UNCHANGED <<histVars, liveVars>>

\* the scraper exits with exit_code.value and execute_stable builds its result
S_Report ==
    /\ scrape.pc = "done"
    /\ scrape' = [scrape EXCEPT !.pc = "idle",
                    !.result = Reported(scrape.exit_code,
                                        IF scrape.exit_code = ExitCode.SUCCESS THEN 1 ELSE 0)]
    /\ cb_obs' = [cb_obs EXCEPT !.event = "-"]
    /\ UNCHANGED <<breaker, cb_time, coreVars, schedVars, startVars, extractVars, outputVars, pipeVars>>
    /\ UNCHANGED <<histVars, liveVars>>

\* time passes (the operation takes its time, the retry loop sleeps, the
\* next scrape comes later)
S_Time ==
    /\ cb_time + CbStep <= MaxCbTime
    /\ cb_time' = cb_time + CbStep
    /\ cb_obs' = [cb_obs EXCEPT !.event = "-"]
    /\ UNCHANGED <<breaker, scrape, coreVars, schedVars, startVars, extractVars, outputVars, pipeVars>>
    /\ UNCHANGED <<histVars, liveVars>>

BreakerIdle ==
    /\ breaker = CircuitBreakerState
    /\ cb_time = 0
    /\ scrape = NoScrape
    /\ cb_obs = NoObs

LiveIdle == live = "-"

AfterPipeIdle == HistIdle /\ BreakerIdle /\ LiveIdle

Success_anyExit(returncode, data_success) == data_success

\* execute_stable: success = result.returncode == 0 and data_result['success']
Success(returncode, data_success) == returncode = 0 /\ data_success

\* _run_subprocess and extract_stable: an output over MAX_OUTPUT_SIZE raises
\* ValueError, which execute_stable answers with a failure of count 0
P_Run ==
    /\ pipe.pc = "idle"
    /\ \E script \in PipeScripts, returncode \in {0, 1}, oversized \in BOOLEAN,
          lines \in PipeInputs :
         LET count == IF oversized THEN 0 ELSE Len(lines)
             success == IF oversized THEN FALSE
                        ELSE Success(returncode, count > 0)
         IN  pipe' = [pc |-> "ran", script |-> script, returncode |-> returncode,
                      oversized |-> oversized, lines |-> lines, success |-> success,
                      count |-> count, new_products |-> << >>, killed |-> FALSE]
    /\ ClearCall
    /\ UNCHANGED <<files, tmp, history, now, sink, concVars, execVars>>
    /\ UNCHANGED <<schedVars, startVars, extractVars, outputVars, afterPipeVars>>

Returned(m, keys, t) ==
    [k \in (DOMAIN m) \cup keys |-> IF k \in keys THEN t ELSE m[k]]

\* process_products_by_url_index: "if success and data_result.get('products')"
P_Detect ==
    /\ pipe.pc = "ran"
    /\ pipe.success
    /\ ~pipe.oversized /\ pipe.lines # << >>
    /\ \E fault \in PipeFaults :
            DetectNewProducts(SiteOf(pipe.script), pipe.lines, fault)
    /\ pipe' = [pipe EXCEPT !.pc = "detected", !.new_products = ret']
    /\ sink' = [sink EXCEPT !.returned =
                    Returned(@, {_normalize_product_key(ret'[i]) : i \in DOMAIN ret'}, now)]
    /\ UNCHANGED <<concVars, execVars>>
    /\ UNCHANGED <<schedVars, startVars, extractVars, outputVars, afterPipeVars>>

\* send_notification_for_url: the message goes to every configured room, the
\* answer of send_notification is dropped, and the script's
\* last_new_product_time is set whatever happened
P_Send ==
    /\ pipe.pc = "detected"
    /\ pipe.new_products # << >>
    /\ \E room \in Rooms, accepted \in BOOLEAN :
         LET keys == {_normalize_product_key(pipe.new_products[i]) :
                            i \in DOMAIN pipe.new_products}
         IN  sink' = [sink EXCEPT
                        !.handed = IF room # "" THEN @ \cup keys ELSE @,
                        !.accepted = IF room # "" /\ accepted THEN @ \cup keys ELSE @]
    /\ last_new_product_time' = Stamp(last_new_product_time, pipe.script, PipeClock)
    /\ pipe' = [pipe EXCEPT !.pc = "sent"]
    /\ ClearCall
    /\ UNCHANGED <<files, tmp, history, now, concVars, execVars>>
    /\ UNCHANGED <<clock, running, stats, tier1Vars, tier2Vars>>
    /\ UNCHANGED <<startVars, extractVars, outputVars, afterPipeVars>>

\* execute_stable returns and _execute_with_interval_tracking looks at the result
P_Return ==
    /\ \/ pipe.pc = "ran" /\ ~(pipe.success /\ ~pipe.oversized /\ pipe.lines # << >>)
       \/ pipe.pc = "detected" /\ pipe.new_products = << >>
       \/ pipe.pc = "sent"
    /\ last_new_product_time' =
         IF pipe.success /\ pipe.count > 0
         THEN Stamp(last_new_product_time, pipe.script, PipeClock)
         ELSE last_new_product_time
    /\ pipe' = [NoPipe EXCEPT !.returncode = pipe.returncode, !.count = pipe.count]
    /\ sink' = [sink EXCEPT !.handed = {}, !.accepted = {}]
    /\ ClearCall
    /\ UNCHANGED <<files, tmp, history, now, concVars, execVars>>
    /\ UNCHANGED <<clock, running, stats, tier1Vars, tier2Vars>>
    /\ UNCHANGED <<startVars, extractVars, outputVars, afterPipeVars>>

\* the process is stopped between the detection and the notification: the
\* files and the history are what outlives it
P_Kill ==
    /\ pipe.pc = "detected"
    /\ pipe.new_products # << >>
    /\ pipe' = [pipe EXCEPT !.pc = "dead", !.killed = TRUE]
    /\ ClearCall
    /\ UNCHANGED <<files, tmp, history, now, sink, concVars, execVars>>
    /\ UNCHANGED schedVars
    /\ UNCHANGED <<startVars, extractVars, outputVars, afterPipeVars>>

P_Tick ==
    /\ pipe.pc = "idle"
    /\ now + PipeStep <= MaxPipeTime
    /\ now' = now + PipeStep
    /\ ClearCall
    /\ UNCHANGED <<files, tmp, history, pipe, sink, concVars, execVars>>
    /\ UNCHANGED <<schedVars, startVars, extractVars, outputVars, afterPipeVars>>

----------------------------------------------------------------------------
(* The two scheduler loops with relative time, for what happens again and  *)
(* again (execute_priority1_async, run_cycle_async, _execute_and_record).  *)
(* Instead of the clock the state keeps ages, each capped where the code   *)
(* no longer tells it from a larger one: the time since the last launch    *)
(* and since the last stamp of a Tier-1 script, the time since             *)
(* cycle_start_time, the rest of the wait after a sweep.  Time is looked   *)
(* at every LiveStep seconds; the sleeps of 1 and 5 seconds are below it.  *)

LiveStep == 1800

AgeCap == 3600

LiveConfig == "one_tier"

Age(t) == Min(t + LiveStep, AgeCap)

\* the queue of the next sweep: retry_scripts + normal_scripts
Requeue(scripts, retry_scripts) ==
    retry_scripts \o SelectSeq(scripts, LAMBDA x : x \notin SeqToSet(retry_scripts))

\* the executions in flight once that of s has ended: subprocess.run returns
\* when the child exits and kills it at SUBPROCESS_TIMEOUT
AfterRun_noKill(tasks, s, outcome) ==
    IF outcome = "timeout" THEN tasks ELSE tasks \ {s}

AfterRun(tasks, s, outcome) == tasks \ {s}

\* a run that was not a success: non-zero exit or no record, timeout, or no permit
Failure(outcome) == outcome \in {"zero", "timeout", "skip"}

LiveStart ==
    [running |-> TRUE, night |-> is_nighttime(StartTime),
     pc |-> "tick", tasks |-> {},
     since |-> [s \in Tier1Scripts |-> AgeCap],
     idle |-> [s \in Tier1Scripts |-> AgeCap],
     queue |-> Tier2Scripts, running_tasks |-> {}, executed |-> {},
     wait |-> 0, cycle_age |-> 0,
     last_failed |-> ""]

\* one pass of the Tier-1 while loop up to the gather
L1_Tick ==
    /\ live.running
    /\ live.pc = "tick"
    /\ LET interval(s) == get_interval_for_priority1(live.idle[s], live.night)
           due == {s \in Tier1Scripts : live.since[s] >= interval(s)}
       IN  /\ due # {}
           /\ live' = [live EXCEPT !.pc = "gather", !.tasks = due,
                            !.since = [s \in Tier1Scripts |->
                                            IF s \in due THEN 0 ELSE @[s]]]
    /\ UNCHANGED <<coreVars, schedVars, startVars, extractVars, outputVars, pipeVars>>
    /\ UNCHANGED <<histVars, breakerVars>>

\* _execute_with_interval_tracking: the subprocess exits or is killed at
\* its timeout, or no permit was to be had
L1_Complete(s) ==
    /\ live.pc = "gather"
    /\ s \in live.tasks
    /\ \E outcome \in RunOutcomes :
         live' = [live EXCEPT
                    !.tasks = AfterRun(@, s, outcome),
                    !.idle = IF SuccessWithRecords(outcome)
                             THEN [@ EXCEPT ![s] = 0] ELSE @,
                    !.last_failed = IF Failure(outcome) THEN s
                                    ELSE IF @ = s THEN "" ELSE @]
    /\ UNCHANGED <<coreVars, schedVars, startVars, extractVars, outputVars, pipeVars>>
    /\ UNCHANGED <<histVars, breakerVars>>

\* the gather returns and the loop sleeps 5 s
L1_Gathered ==
    /\ live.pc = "gather"
    /\ live.tasks = {}
    /\ live' = [live EXCEPT !.pc = "tick"]
    /\ UNCHANGED <<coreVars, schedVars, startVars, extractVars, outputVars, pipeVars>>
    /\ UNCHANGED <<histVars, breakerVars>>

\* a pass of the Tier-2 loop that pops and launches
L2_Launch ==
    /\ live.running
    /\ live.wait = 0
    /\ live.queue # << >>
    /\ Room(live.running_tasks) > 0
    /\ live' = [live EXCEPT !.queue = Tail(@),
                            !.running_tasks = @ \cup {Head(live.queue)}]
    /\ UNCHANGED <<coreVars, schedVars, startVars, extractVars, outputVars, pipeVars>>
    /\ UNCHANGED <<histVars, breakerVars>>

\* _execute_and_record
L2_Complete(s) ==
    /\ s \in live.running_tasks
    /\ \E outcome \in RunOutcomes :
         live' = [live EXCEPT
                    !.running_tasks = AfterRun(@, s, outcome),
                    !.executed = IF s \in AfterRun(live.running_tasks, s, outcome)
                                 THEN @ ELSE @ \cup {s},
                    !.last_failed = IF Failure(outcome) THEN s
                                    ELSE IF @ = s THEN "" ELSE @]
    /\ UNCHANGED <<coreVars, schedVars, startVars, extractVars, outputVars, pipeVars>>
    /\ UNCHANGED <<histVars, breakerVars>>

\* the pass that finds the queue empty and nothing in flight: the sweep ends
L2_Rollover ==
    /\ live.running
    /\ live.wait = 0
    /\ live.queue = << >>
    /\ live.running_tasks = {}
    /\ LET not_executed == SeqToSet(Tier2Scripts) \ live.executed
           target_interval == get_interval_for_priority2(live.night)
       IN  \E retry_scripts \in OrdersOf(not_executed) :
             live' = [live EXCEPT
                        !.queue = Requeue(Tier2Scripts, retry_scripts),
                        !.executed = {},
                        !.wait = Max(5, target_interval - live.cycle_age),
                        !.cycle_age = 0]
    /\ UNCHANGED <<coreVars, schedVars, startVars, extractVars, outputVars, pipeVars>>
    /\ UNCHANGED <<histVars, breakerVars>>

\* LiveStep seconds pass; the hour may have moved into or out of the night
L_Time ==
    /\ \E night \in BOOLEAN :
         live' = [live EXCEPT
                    !.night = night,
                    !.since = [s \in Tier1Scripts |-> Age(@[s])],
                    !.idle = [s \in Tier1Scripts |-> Age(@[s])],
                    !.cycle_age = Min(Age(@), get_interval_for_priority2(TRUE)),
                    !.wait = Max(0, @ - LiveStep)]
    /\ UNCHANGED <<coreVars, schedVars, startVars, extractVars, outputVars, pipeVars>>
    /\ UNCHANGED <<histVars, breakerVars>>

\* signal_handler -> stop()
L_Stop ==
    /\ live.running
    /\ live' = [live EXCEPT !.running = FALSE]
    /\ UNCHANGED <<coreVars, schedVars, startVars, extractVars, outputVars, pipeVars>>
    /\ UNCHANGED <<histVars, breakerVars>>

Init ==
    /\ files = [p \in Paths |-> AbsentFile]
    /\ tmp = [p \in Paths |-> AbsentFile]
    /\ history = EmptyMap
    /\ now = 0
    /\ call = NoCall
    /\ ret = << >>
    /\ branch = "-"
    /\ sn = NoQuery
    /\ pc = [t \in Threads |-> "idle"]
    /\ tl = [t \in Threads |-> NoLocal]
    /\ lock = [p \in Paths |-> "free"]
    /\ permits = PoolSize
    /\ run = [r \in Runs |-> Idle]
    /\ result = NoResult
    /\ StartIdle
    /\ SchedConstructed
    /\ ExtractIdle
    /\ OutputIdle
    /\ PipeIdle
    /\ AfterPipeIdle

Next == Detect \/ Tick

Spec == Init /\ [][Next]_vars

NextCap == DetectCap \/ Tick

SpecCap == Init /\ [][NextCap]_vars

NextFault == DetectFault \/ ShouldNotifyCall \/ Tick

SpecFault == Init /\ [][NextFault]_vars

NextConc ==
    \/ \E t \in Threads : T_Load(t)
    \/ \E t \in Threads : T_SaveLock(t)
    \/ \E t \in Threads : T_OpenTmp(t)
    \/ \E t \in Threads : T_DumpSync(t)
    \/ \E t \in Threads : T_Rename(t)
    \/ \E t \in Threads : T_Check(t)
    \/ \E t \in Threads : T_Add(t)
    \/ \E t \in Threads : T_Return(t)
    \/ Crash

SpecConc == Init /\ [][NextConc]_vars

NextExec ==
    \/ \E r \in Runs : E_Start(r)
    \/ \E r \in Runs : E_Missing(r)
    \/ \E r \in Runs : E_Acquire(r)
    \/ \E r \in Runs : E_AcquireTimeout(r)
    \/ \E r \in Runs : E_Finish(r)

SpecExec == Init /\ [][NextExec]_vars

CoreInit ==
    /\ files = [p \in Paths |-> AbsentFile]
    /\ tmp = [p \in Paths |-> AbsentFile]
    /\ history = EmptyMap
    /\ now = 0
    /\ call = NoCall
    /\ ret = << >>
    /\ branch = "-"
    /\ sn = NoQuery
    /\ pc = [t \in Threads |-> "idle"]
    /\ tl = [t \in Threads |-> NoLocal]
    /\ lock = [p \in Paths |-> "free"]
    /\ permits = PoolSize
    /\ run = [r \in Runs |-> Idle]
    /\ result = NoResult

InitSched ==
    /\ CoreInit
    /\ config_file \in ConfigFiles
    /\ token \in BOOLEAN
    /\ proc = [pc |-> "load_config", status |-> 0 - 1, loops |-> {}]
    /\ SchedConstructed
    /\ ExtractIdle
    /\ OutputIdle
    /\ PipeIdle
    /\ AfterPipeIdle

NextSched ==
    \/ LoadConfig
    \/ CreateNotifier
    \/ StartAsync
    \/ T1_Tick
    \/ \E s \in Scripts : T1_Complete(s)
    \/ T1_Gathered
    \/ T1_Exit
    \/ T2_Rollover
    \/ T2_Launch
    \/ T2_Wait
    \/ \E s \in Scripts : T2_Complete(s)
    \/ T2_Exit
    \/ Stop
    \/ CycleExit
    \/ Close
    \/ Advance

SpecSched == InitSched /\ [][NextSched]_vars

InitExtract ==
    /\ CoreInit
    /\ StartIdle
    /\ SchedConstructed
    /\ line \in Lines
    /\ record = NoRecord("pending")
    /\ OutputIdle
    /\ PipeIdle
    /\ AfterPipeIdle

NextExtract == Extract

SpecExtract == InitExtract /\ [][NextExtract]_vars

InitOutput ==
    /\ CoreInit
    /\ StartIdle
    /\ SchedConstructed
    /\ ExtractIdle
    /\ output \in SeqsUpTo(OutputLines, MaxLines)
    /\ extracted = [pc |-> "pending", products |-> << >>]
    /\ PipeIdle
    /\ AfterPipeIdle

NextOutput == ExtractOutput

SpecOutput == InitOutput /\ [][NextOutput]_vars

InitPipe ==
    /\ CoreInit
    /\ StartIdle
    /\ SchedConstructed
    /\ ExtractIdle
    /\ OutputIdle
    /\ PipeIdle
    /\ AfterPipeIdle

NextPipe == P_Run \/ P_Detect \/ P_Send \/ P_Return \/ P_Kill \/ P_Tick

SpecPipe == InitPipe /\ [][NextPipe]_vars

InitHist ==
    /\ CoreInit
    /\ StartIdle
    /\ SchedConstructed
    /\ ExtractIdle
    /\ OutputIdle
    /\ PipeIdle
    /\ AfterPipeIdle

NextHist == H_Call \/ H_Connect \/ H_Body \/ H_Commit

SpecHist == InitHist /\ [][NextHist]_vars

InitBreaker == InitHist

NextBreaker == S_Begin \/ S_Enter \/ S_Leave \/ S_Report \/ S_Time

SpecBreaker == InitBreaker /\ [][NextBreaker]_vars

InitLive ==
    /\ CoreInit
    /\ config_file = LiveConfig
    /\ token = TRUE
    /\ proc = NoProc
    /\ SchedConstructed
    /\ ExtractIdle
    /\ OutputIdle
    /\ PipeIdle
    /\ HistIdle
    /\ BreakerIdle
    /\ live = LiveStart

NextLive ==
    \/ L1_Tick
    \/ \E s \in Scripts : L1_Complete(s)
    \/ L1_Gathered
    \/ L2_Launch
    \/ \E s \in Scripts : L2_Complete(s)
    \/ L2_Rollover
    \/ L_Time
    \/ L_Stop

\* the event loop runs a task that is ready, an execution ends (the
\* subprocess exits or is killed at SUBPROCESS_TIMEOUT), and time passes
LiveFairness ==
    /\ WF_vars(L1_Tick)
    /\ WF_vars(L1_Gathered)
    /\ WF_vars(L2_Launch)
    /\ WF_vars(L2_Rollover)
    /\ \A s \in Scripts : WF_vars(L1_Complete(s)) /\ WF_vars(L2_Complete(s))
    /\ WF_vars(L_Time)

SpecLive == InitLive /\ [][NextLive]_vars /\ LiveFairness

TypeOK == now \in 0..MaxTime

----------------------------------------------------------------------------
(* Vocabulary of the properties.  A step with call'.site # "-" is a call   *)
(* of detect_new_products; unprimed variables are the state before it.     *)

DetectStep == call'.site # "-"

StepSite == call'.site

StepList == call'.products

PreEntries == files[PathOf(StepSite)].data

PostEntries == files'[PathOf(StepSite)].data

PreLeaderKey == PreEntries[StepSite].first_product_key

KeysOf(L) == [i \in DOMAIN L |-> _normalize_product_key(L[i])]

\* 0-based position of the first occurrence of key k in L (only used when
\* k occurs)
FirstOccurrence(L, k) ==
    (CHOOSE i \in DOMAIN L : KeysOf(L)[i] = k /\ \A j \in 1..(i - 1) : KeysOf(L)[j] # k) - 1

RecordWithinCooldown(hist, k, t) ==
    \E key \in DOMAIN hist : key = k /\ t - hist[key] < 6

\* the items among the first n of L that may be announced: no record of
\* their key within the last 6 hours, and no earlier item with the same key
RECURSIVE Announceable(_, _, _, _, _)
Announceable(L, i, n, hist, t) ==
    IF i > n THEN << >>
    ELSE (IF /\ ~RecordWithinCooldown(hist, KeysOf(L)[i], t)
             /\ \A j \in 1..(i - 1) : KeysOf(L)[j] # KeysOf(L)[i]
          THEN << L[i] >> ELSE << >>)
         \o Announceable(L, i + 1, n, hist, t)

HasEntry(fs, site) ==
    fs[PathOf(site)].state = "complete" /\ site \in DOMAIN fs[PathOf(site)].data

LeaderKey(fs, site) == fs[PathOf(site)].data[site].first_product_key

----------------------------------------------------------------------------
(* C1: when the remembered leader first occurs at position p > 0 of the    *)
(* current list, detect returns the p items before it and the remembered   *)
(* leader becomes current[0].                                              *)

C1_Case ==
    /\ DetectStep
    /\ StepList # << >>
    /\ HasEntry(files, StepSite)
    /\ KeysOf(StepList)[1] # PreLeaderKey
    /\ \E i \in DOMAIN StepList : KeysOf(StepList)[i] = PreLeaderKey

----------------------------------------------------------------------------
(* C2: when no item of the non-empty current list carries the remembered   *)
(* leader's key, detect returns the first min(20, len) items and the       *)
(* remembered leader becomes current[0].                                   *)

C2_Case ==
    /\ DetectStep
    /\ StepList # << >>
    /\ HasEntry(files, StepSite)
    /\ \A i \in DOMAIN StepList : KeysOf(StepList)[i] # PreLeaderKey

----------------------------------------------------------------------------
(* C3: the first detect of a site without snapshot entry returns the empty *)
(* list, inserts no notification record, and leaves an entry whose leader  *)
(* key is the key of current[0].                                           *)

----------------------------------------------------------------------------
(* C4: while the remembered leader key equals the key of L[0], detect(L)   *)
(* returns the empty list and changes nothing but the timestamp of the     *)
(* site's entry.                                                           *)

----------------------------------------------------------------------------
(* C5: should_notify(key) returns false if and only if the history holds a *)
(* record of the key within the last 6 hours, also when the access to the  *)
(* store fails.                                                            *)

C5_Original ==
    [][(sn' # NoQuery) =>
        (sn'.result = FALSE <=> RecordWithinCooldown(history, sn'.key, now))]_vars

----------------------------------------------------------------------------
(* C8: once a snapshot entry exists for a site, an entry for that site     *)
(* exists in every later state, also after a failed load.                  *)

C8_Original ==
    [][\A s \in Sites : HasEntry(files, s) => HasEntry(files', s)]_vars

----------------------------------------------------------------------------
(* C6: at every moment the target snapshot file holds either the whole     *)
(* prior mapping or the whole new mapping; an interruption at any step of  *)
(* a save leaves the prior content in place.                               *)

C6_Atomic ==
    [][\A p \in Paths :
        /\ files'[p].state # "partial"
        /\ files'[p] # files[p] =>
              \E t \in Threads :
                /\ pc[t] = "tmp_synced"
                /\ PathOf(tl[t].site) = p
                /\ files'[p] = CompleteFile(tl[t].data)]_vars

\* the process died while the temp file was being written, and the target
\* still holds a complete earlier mapping
C6_Witness ==
    \E p \in Paths :
        /\ tmp[p].state = "partial"
        /\ files[p].state = "complete"
        /\ DOMAIN files[p].data # {}
        /\ \A t \in Threads : pc[t] = "idle"

----------------------------------------------------------------------------
(* C7: two concurrent detections for two different sites of one snapshot   *)
(* file each behave as one atomic step: after both have saved, the file    *)
(* contains the update of both.                                            *)

Saved(t) == pc[t] \in {"cooldown", "adding", "done"}

C7_Original ==
    \A t1, t2 \in Threads :
        (/\ Saved(t1) /\ Saved(t2)
         /\ tl[t1].site # tl[t2].site
         /\ PathOf(tl[t1].site) = PathOf(tl[t2].site)) =>
        (/\ HasEntry(files, tl[t1].site)
         /\ LeaderKey(files, tl[t1].site) = KeysOf(tl[t1].products)[1])

----------------------------------------------------------------------------
(* C9: never more browser scrapers executing than permits in the pool;     *)
(* every acquired permit is released exactly once when its run ends, a run *)
(* without permit releases none, and the pool is full again when no        *)
(* browser scraper runs.                                                   *)

Executing == {r \in Runs : run[r].pc = "running" /\ r[2] \in PlaywrightScripts}

C9_Permits ==
    /\ Cardinality(Executing) <= 3
    /\ permits + Cardinality({r \in Runs : run[r].acquired}) = 3
    /\ \A r \in Runs : run[r].acquired <=> r \in Executing

\* a browser run that held a permit while the pool was exhausted has timed
\* out, and its permit is back
C9_Witness ==
    /\ result.error = "timeout"
    /\ result.run[2] \in PlaywrightScripts
    /\ permits = 1
    /\ Cardinality(Executing) = 2
    /\ \E r \in Runs : run[r].pc = "acquiring"

----------------------------------------------------------------------------
(* C10: a browser script that gets no permit within the wait is skipped:   *)
(* no subprocess, a result with zero records that is not a failure, and    *)
(* the snapshot store and the notification history unchanged.              *)

C10_Skip ==
    [][\A r \in Runs :
        (run[r].pc = "acquiring" /\ run'[r].pc = "idle") =>
            /\ result' = [run |-> r, success |-> TRUE, count |-> 0, error |-> "-"]
            /\ files' = files /\ tmp' = tmp /\ history' = history
            /\ permits' = permits
            /\ \A q \in Runs : q # r => run'[q] = run[q]]_vars

C10_Witness ==
    /\ result.run[1] # 0
    /\ result.success /\ result.count = 0
    /\ run[result.run].pc = "idle"
    /\ permits = 0
    /\ \E s \in Sites : HasEntry(files, s)

----------------------------------------------------------------------------
(* Vocabulary of the scheduler properties *)

\* a pass of the Tier-1 loop is taken in this step
TickStep ==
    /\ tier1.pc = "sleep"
    /\ tier1'.pc \in {"sleep", "gather"}
    /\ tier1'.wake # tier1.wake \/ tier1'.pc = "gather"

\* the scripts launched in this step by the Tier-1 loop
LaunchedNow == {s \in Tier1Scripts : last_run_times'[s] # last_run_times[s]}

\* a Tier-2 sweep ends in this step
RolloverStep == tier2'.cycle_count # tier2.cycle_count

\* the interval rule as stated, on the age of the last new-item notification
StatedInterval(age) ==
    IF age < 30 * 60 THEN 60 ELSE IF age < 60 * 60 THEN 300 ELSE 3600

IndexOf(q, x) == CHOOSE i \in DOMAIN q : q[i] = x

Launches == tier1.launched + sweep.total

----------------------------------------------------------------------------
(* C11: outside the night window, at every Tier-1 tick the interval of a   *)
(* script is 60 s if its last new-item notification is less than 30        *)
(* minutes old, 300 s if it is between 30 and 60 minutes old, 3600 s       *)
(* otherwise (also for a script that keeps scraping successfully without   *)
(* anything new).                                                          *)

C11_Original ==
    [][(TickStep /\ ~is_nighttime(clock)) =>
            \A s \in Tier1Scripts :
                script_intervals'[s] = StatedInterval(clock - tier1.notified[s])]_vars

----------------------------------------------------------------------------
(* C12: Tier-2 sweeps do not overlap: at most one script is in flight, no  *)
(* script is launched twice in a sweep, and a sweep ends only with an      *)
(* empty queue, nothing in flight and every script launched exactly once   *)
(* and completed; the next queue holds every script once.                  *)

C12_NoOverlap ==
    [][/\ Cardinality(tier2'.tasks) <= 1
       /\ \A s \in Scripts : sweep'.launches[s] <= 1
       /\ RolloverStep =>
            /\ script_queue = << >>
            /\ tier2.tasks = {}
            /\ \A s \in SeqToSet(Tier2Scripts) :
                    sweep.launches[s] = 1 /\ s \in executed_scripts
            /\ Len(script_queue') = Len(Tier2Scripts)
            /\ SeqToSet(script_queue') = SeqToSet(Tier2Scripts)]_vars

\* the second script of a later sweep is in flight
C12_Witness ==
    /\ tier2.cycle_count >= 1
    /\ tier2.tasks # {}
    /\ script_queue = << >>
    /\ \A s \in SeqToSet(Tier2Scripts) : sweep.launches[s] = 1

----------------------------------------------------------------------------
(* C13: when a Tier-2 sweep took less than the target interval, the next   *)
(* sweep starts no earlier than one target interval after the start of     *)
(* that sweep.                                                             *)

C13_Original ==
    (/\ sweep.start # datetime_min
     /\ sweep.prev.start # datetime_min
     /\ sweep.prev.end - sweep.prev.start < sweep.prev.target) =>
    sweep.start - sweep.prev.start >= sweep.prev.target

----------------------------------------------------------------------------
(* C14: a priority-2 script that was skipped for want of a browser permit  *)
(* during a sweep stands in the next queue ahead of every script that      *)
(* did execute.                                                            *)

C14_Original ==
    [][RolloverStep =>
            \A s \in sweep.skipped :
                \A x \in SeqToSet(Tier2Scripts) \ sweep.skipped :
                    IndexOf(script_queue', s) < IndexOf(script_queue', x)]_vars

----------------------------------------------------------------------------
(* C15: at a Tier-1 tick taken at night every interval is 1800 s and a     *)
(* script is launched only if it was never launched or at least 1800 s     *)
(* have passed since its last launch; at a Tier-2 sweep end at night the   *)
(* target interval is 1800 s and the loop waits max(5, 1800 - duration).   *)

C15_Night ==
    [][/\ (TickStep /\ is_nighttime(clock)) =>
            /\ \A s \in Tier1Scripts : script_intervals'[s] = 1800
            /\ \A s \in LaunchedNow :
                    \/ last_run_times[s] = datetime_min
                    \/ clock - last_run_times[s] >= 1800
       /\ (RolloverStep /\ is_nighttime(clock)) =>
            /\ sweep'.prev.target = 1800
            /\ tier2'.wake - clock = Max(5, 1800 - (clock - cycle_start_time))]_vars

\* at night a script that reported new items ten minutes ago has been
\* passed over, and a Tier-2 sweep has ended
C15_Witness ==
    \/ /\ is_nighttime(clock)
       /\ tier1.pc = "sleep"
       /\ tier1.wake = clock + 5
       /\ \E s \in Tier1Scripts :
            /\ tier1.notified[s] > datetime_min
            /\ clock - tier1.notified[s] < 1800
            /\ last_run_times[s] < clock
            /\ script_intervals[s] = 1800
    \/ /\ is_nighttime(clock)
       /\ tier2.cycle_count >= 2
       /\ sweep.prev.target = 1800
       /\ tier2.wake > clock

----------------------------------------------------------------------------
(* C16: while the controller runs, a staleness report is generated at      *)
(* least once in every 30-minute period, whether or not a priority-2       *)
(* script is configured and wherever the Tier-2 loop is.                   *)

C16_Original ==
    (proc.pc = "running" /\ running.master) =>
        clock - last_report_time <= 30 * 60

----------------------------------------------------------------------------
(* C17: once the running flags are false no script is launched, and when   *)
(* the loops have ended and the process exits every execution that was     *)
(* launched has had its result recorded.                                   *)

C17_Original ==
    [][/\ ~running.master => Launches' = Launches
       /\ (proc'.pc = "exited" /\ proc'.status = 0) => stats' = Launches']_vars

----------------------------------------------------------------------------
(* C18: a run whose subprocess exceeds its timeout returns a failure       *)
(* result with the timeout error and zero records; that step leaves the    *)
(* snapshot files and the notification history as they were and gives the  *)
(* permit of the run back.                                                 *)

C18_Timeout ==
    [][result'.error = "timeout" =>
            /\ result'.success = FALSE
            /\ result'.count = 0
            /\ files' = files
            /\ tmp' = tmp
            /\ history' = history
            /\ run[result'.run].pc = "running"
            /\ run'[result'.run] = Idle
            /\ permits' = permits + (IF is_playwright_script(result'.run[2]) THEN 1 ELSE 0)]_vars

\* a browser run has just timed out while snapshots and history were filled
C18_Witness ==
    /\ result.error = "timeout"
    /\ is_playwright_script(result.run[2])
    /\ run[result.run] = Idle
    /\ history # EmptyMap
    /\ \E s \in Sites : HasEntry(files, s)


----------------------------------------------------------------------------
(* C19: with the config file missing or unparseable, or without the        *)
(* notification credential, the process never gets to run a loop and       *)
(* exits with a non-zero status.                                           *)

C19_Original ==
    (config_file \in {"missing", "unparseable"} \/ ~token) =>
        /\ proc.pc # "running"
        /\ proc.loops = {}
        /\ proc.pc = "exited" => proc.status # 0

----------------------------------------------------------------------------
(* C20: every record the extractor returns has a price that is the decimal *)
(* form of an integer in [100, 10,000,000] and a name of more than 3 and   *)
(* at most 200 characters; a line on which no price pattern matches an     *)
(* in-range integer anywhere gives no record.                              *)

\* some match of some pattern, anywhere on the text, is an integer in range
InRangeSomewhere(t) ==
    \E pattern \in {1, 2, 3} : \E i \in 1..Len(t) :
        LET m == MatchAt(pattern, t, i)
            v == IF m.to > 0 THEN ParseInt(SubSeq(t, m.g1, m.g2)) ELSE 0 - 1
        IN  m.to > 0 /\ v >= 100 /\ v <= 10000000

C20_Extracted ==
    /\ record.state = "record" =>
            /\ \A i \in 1..Len(record.price) : record.price[i] \in Digit
            /\ Len(record.price) \in 3..8
            /\ ParseInt(record.price) >= 100
            /\ ParseInt(record.price) <= 10000000
            /\ Len(record.name) > 3
            /\ Len(record.name) <= 200
    /\ (record.state \in {"none", "record"} /\ ~InRangeSomewhere(line)) =>
            record.state = "none"

\* a record came out of a line whose first price is out of range and whose
\* name had to be cut
C20_Witness ==
    /\ record.state = "record"
    /\ Len(record.name) = 200
    /\ Len(line) > 200
    /\ \E i \in 1..Len(line) :
            LET m == MatchAt(1, line, i)
            IN  m.to > 0 /\ ParseInt(SubSeq(line, m.g1, m.g2)) < 100

----------------------------------------------------------------------------
(* C21: each extracted record carries the url_index of the nearest marker  *)
(* line before its line, or 0 when there is none; marker lines and         *)
(* filtered lines give no record and do not change the context otherwise;  *)
(* the records keep the order of their lines.                              *)

\* line i is a marker line; ---URL_INDEX:N--- with a number N sets the context
IsMarkerLine(i) == StartsAt(Strip(output[i]), 1, URL_INDEX_PREFIX)

MarkerNumber(i) ==
    LET t == Strip(output[i])
    IN  IF \E n \in 0..9 : t = MarkerLine(n)
        THEN CHOOSE n \in 0..9 : t = MarkerLine(n) ELSE 0 - 1

\* line i is a product line: long enough, no marker, not filtered, with a record
Yields(i) ==
    /\ ~IsMarkerLine(i)
    /\ Len(Strip(output[i])) >= 10
    /\ ~_should_skip_line(Strip(output[i]))
    /\ _extract_product_from_line(Strip(output[i])).state = "record"

ContextAt(i) ==
    LET ms == {j \in 1..(i - 1) : IsMarkerLine(j) /\ MarkerNumber(j) >= 0}
    IN  IF ms = {} THEN 0 ELSE MarkerNumber(CHOOSE j \in ms : \A k \in ms : k <= j)

\* the k-th product line
NthYield(k) ==
    CHOOSE i \in DOMAIN output :
        Yields(i) /\ Cardinality({j \in 1..i : Yields(j)}) = k

C21_UrlIndex ==
    extracted.pc = "done" =>
        /\ Len(extracted.products) = Cardinality({i \in DOMAIN output : Yields(i)})
        /\ \A k \in DOMAIN extracted.products :
              /\ extracted.products[k].url_index = ContextAt(NthYield(k))
              /\ extracted.products[k].name =
                    _extract_product_from_line(Strip(output[NthYield(k)])).name

\* two records came out, the first before any marker and the second after one
C21_Witness ==
    /\ extracted.pc = "done"
    /\ Len(extracted.products) = 2
    /\ extracted.products[1].url_index = 0
    /\ extracted.products[2].url_index # 0

----------------------------------------------------------------------------
(* C22, C23, C29, C30: one execution from subprocess to notification       *)
(* (SpecPipe)                                                              *)

\* C22 as stated: a record of the notification history is inserted only
\* after a send announcing that product returned success: a step that writes
\* a record for a key follows a send of the same execution that the sink
\* accepted for that key.
C22_Original ==
    [][\A k \in DOMAIN history' :
            (k \notin DOMAIN history \/ history'[k] # history[k])
                => k \in sink.accepted]_vars

\* C23 as stated: the leader of a site is moved on only after the new items
\* of that detection passed the deduper and their message was handed to the
\* sink: when a step replaces the leader, every item the detection returned
\* has been handed over.
C23_Original ==
    [][\A site \in Sites :
            ( /\ HasEntry(files, site)
              /\ HasEntry(files', site)
              /\ LeaderKey(files', site) # LeaderKey(files, site) )
            => \A i \in DOMAIN ret' :
                    _normalize_product_key(ret'[i]) \in sink'.handed]_vars


\* C29 as stated: detections that do not interleave return the same
\* normalized key at most once within any 6-hour window, whatever the site:
\* the keys one detection returns are pairwise different, and none of them
\* was returned less than 6 hours before.
C29_Original ==
    [][DetectStep =>
        LET K == KeysOf(ret')
        IN  /\ \A i, j \in DOMAIN K : i # j => K[i] # K[j]
            /\ \A i \in DOMAIN K :
                    K[i] \in DOMAIN sink.returned
                        => sink.returned[K[i]] + NOTIFICATION_COOLDOWN_HOURS <= now]_vars

\* a run for which execute_stable runs the change detection
Qualifies(p) == p.returncode = 0 /\ ~p.oversized /\ Len(p.lines) >= 1

\* C30: change detection runs only for a run with exit status 0 and at least
\* one record; a run with a non-zero exit (valid lines or not), without
\* records or with an oversized output returns leaving every snapshot entry
\* with its timestamp, the history and the last-new-item times as they were,
\* and hands no message to the sink.
C30_Gate ==
    [][ /\ DetectStep => Qualifies(pipe)
        /\ (pipe.pc = "ran" /\ ~Qualifies(pipe) /\ ~pipe'.killed)
            => /\ pipe'.pc = "idle"
               /\ files' = files
               /\ history' = history
               /\ last_new_product_time' = last_new_product_time
               /\ sink' = sink ]_vars

\* C30 witness: a run that printed valid lines and exited with status 1 has
\* returned, with entries in the snapshot and records in the history
C30_Witness ==
    /\ pipe.pc = "idle" /\ ~pipe.killed
    /\ pipe.returncode = 1 /\ pipe.count >= 1
    /\ \E site \in Sites : HasEntry(files, site)
    /\ history # EmptyMap

----------------------------------------------------------------------------
(* C24: history operations under lock contention (SpecHist) *)

\* C24 as stated: an operation that meets lock contention at any point
\* (opening the transaction, executing the statement, committing) is
\* attempted again, up to max_retries attempts with delays of at most 5
\* seconds, and only the exhaustion of the attempts abandons it.
C24_Original ==
    /\ op.wait <= MaxWait
    /\ op.phase = "abandoned" => op.attempt = max_retries - 1

----------------------------------------------------------------------------
(* C25, C26: the circuit breaker and the outcome of a scrape (SpecBreaker) *)

\* C25: every state change of the breaker is CLOSED -> OPEN at a failure
\* that brings the failures since the last success to the threshold,
\* OPEN -> HALF_OPEN at a check made when the recovery timeout has elapsed
\* since the last failure, HALF_OPEN -> CLOSED at the success that completes
\* CB_HALF_OPEN_MAX_CALLS successes in a row, or HALF_OPEN -> OPEN at a
\* failure; each of these events changes the state; and the protected
\* operation is not invoked while the breaker is OPEN before the timeout.
C25_Transitions ==
    [][LET from == breaker.state
           to == breaker'.state
           event == cb_obs'.event
           elapsed == cb_time - breaker.last_failure_time
       IN  /\ from # to =>
                \/ /\ from = "CLOSED" /\ to = "OPEN"
                   /\ event = "failure" /\ cb_obs'.fails = CB_FAILURE_THRESHOLD
                \/ /\ from = "OPEN" /\ to = "HALF_OPEN"
                   /\ event \in {"check", "invoked"}
                   /\ breaker.last_failure_time # NoTime
                   /\ elapsed >= CB_RECOVERY_TIMEOUT_SECONDS
                \/ /\ from = "HALF_OPEN" /\ to = "CLOSED"
                   /\ event = "success" /\ cb_obs'.wins = CB_HALF_OPEN_MAX_CALLS
                \/ /\ from = "HALF_OPEN" /\ to = "OPEN"
                   /\ event = "failure"
           /\ (from = "CLOSED" /\ event = "failure"
                    /\ cb_obs'.fails >= CB_FAILURE_THRESHOLD) => to = "OPEN"
           /\ (from = "HALF_OPEN" /\ event = "success"
                    /\ cb_obs'.wins >= CB_HALF_OPEN_MAX_CALLS) => to = "CLOSED"
           /\ (from = "HALF_OPEN" /\ event = "failure") => to = "OPEN"
           /\ event = "invoked" =>
                ~(from = "OPEN" /\ elapsed < CB_RECOVERY_TIMEOUT_SECONDS)
           /\ (from = "OPEN" /\ elapsed < CB_RECOVERY_TIMEOUT_SECONDS
                    /\ event \in {"check", "invoked", "refused"})
                => to = "OPEN" /\ event = "refused" ]_vars

\* C25 witness: the breaker has gone round: opened at the threshold, let a
\* trial through after the timeout, and closed again at the third success
C25_Witness ==
    /\ breaker.state = "CLOSED"
    /\ breaker.last_failure_time # NoTime
    /\ breaker.failure_count = 0
    /\ cb_obs.event = "success"
    /\ cb_obs.wins = CB_HALF_OPEN_MAX_CALLS
    /\ cb_time >= CB_RECOVERY_TIMEOUT_SECONDS

\* C26 as stated: a scrape one of whose attempts was refused because the
\* breaker was OPEN, at the first check or inside the retry sequence, ends
\* with CIRCUIT_OPEN and not with FAILURE, and the result the coordinator
\* builds from it differs from the one it builds from a failure.
C26_Original ==
    /\ (scrape.pc = "done" /\ scrape.refused) => scrape.exit_code = ExitCode.CIRCUIT_OPEN
    /\ (scrape.pc = "idle" /\ scrape.exit_code = ExitCode.CIRCUIT_OPEN)
            => scrape.result # Reported(ExitCode.FAILURE, 0)

----------------------------------------------------------------------------
(* C28: no script has two executions in flight (SpecSched) *)

\* every script of the configuration is in one tier only
OneTier == Tier1Scripts \cap SeqToSet(Tier2Scripts) = {}

\* the scripts the Tier-2 loop launches in this step
Tier2LaunchedNow == tier2'.tasks \ tier2.tasks

\* C28: when every script is in exactly one tier, no script has two
\* executions in flight: the Tier-1 loop starts a tick only when no
\* execution of the previous tick is left, the Tier-2 loop launches only
\* when no Tier-2 execution is in flight, and a script launched by either
\* loop has no execution in flight in the other.
C28_OneInFlight ==
    [][OneTier =>
        /\ TickStep => tier1.tasks = {}
        /\ Tier2LaunchedNow # {} =>
                tier2.tasks = {} /\ Cardinality(Tier2LaunchedNow) = 1
        /\ \A s \in LaunchedNow \cup Tier2LaunchedNow :
                s \notin tier1.tasks /\ s \notin tier2.tasks
        /\ tier1'.tasks \cap tier2'.tasks = {}]_vars

\* C28 witness: with two scripts in each tier, both loops have launched and
\* both tiers have an execution in flight, of different scripts
C28_Witness ==
    /\ OneTier
    /\ Tier1Scripts # {} /\ Tier2Scripts # << >>
    /\ tier1.tasks # {} /\ tier2.tasks # {}
    /\ tier1.launched >= 1 /\ sweep.total >= 1

----------------------------------------------------------------------------
(* C27: every active script is launched again and again (SpecLive) *)

InFlight(s) == s \in live.tasks \/ s \in live.running_tasks

\* C27: as long as the controller is not stopped, and with every execution
\* ending, every script of each tier is in flight again and again and not
\* in flight again and again, i.e. it is launched infinitely often,
\* whatever the executions of this and of the other scripts return.
C27_Relaunched ==
    \A s \in {"a.py", "b.py", "c.py", "d.py"} :
        /\ []<>(~live.running \/ InFlight(s))
        /\ []<>(~live.running \/ ~InFlight(s))

\* C27 witness: the script whose execution was the last to fail is in
\* flight again while a script of the other tier is in flight too
C27_Witness ==
    /\ live.running
    /\ InFlight(live.last_failed)
    /\ live.tasks # {}
    /\ live.running_tasks # {}

====
